---- MODULE Spec2Model ----
(***************************************************************************)
(* Verification model of FX3110_Monitor: the polling scheduler             *)
(* (src/monitor.py), the FX4200 session RPC client                         *)
(* (src/collectors/inseego_fx4200.py), the tab-separated log format and    *)
(* the log analyzer (src/api/main.py).                                     *)
(*                                                                         *)
(* Text is a sequence of one-character strings, so that formatting and     *)
(* parsing are computed digit by digit.  A Python value is a tagged record *)
(* (PyNone, PyInt, PyStr, PyBool); a dict is a function from keys to       *)
(* Python values.                                                          *)
(***************************************************************************)
EXTENDS Integers, Sequences, FiniteSets, TLC

VARIABLES
    \* ---- polling scheduler (monitor.main) ----
    device_type,            \* config["device_type"]
    public_ip_refresh,      \* config network.public_ip_refresh
    pc,                     \* "running" | "crashed" (uncaught exception left main)
    clock,                  \* the system wall clock read by time.time / datetime.now
    last_public_ip,         \* main: last_public_ip
    next_public_ip_refresh, \* main: next_public_ip_refresh
    record,                 \* the record printed by the last completed tick
    timestamp,              \* the datetime.now() reading of that record
    ticks,                  \* loop iterations started
    emitted,                \* records printed
    failed,                 \* accessors that raised in the last started tick
    refresh_outcome,        \* what cellular.refresh_data() did in the last started tick
    ping_result,            \* the dict network.ping returned to the last started tick
    ping_tick,              \* the tick in which network.ping last ran
    public_ip_called,       \* whether get_public_ip was invoked in the last started tick
    public_ip_answer,       \* what get_public_ip did in the last started tick, if invoked
    \* ---- FX4200 session RPC client (InseegoFX4200Collector) ----
    session_token,          \* self._session_token (NoToken = None)
    session_created,        \* self._session_created
    rpc_id,                 \* self._rpc_id
    uclock,                 \* time.time() as the collector reads it
    sent,                   \* requests posted by the last _ubus_call, in order
    received,               \* responses the last _ubus_call got to its data requests
    discards,               \* times the last _ubus_call set _session_token = None
    auth_replies,           \* replies the last _ubus_call got to its authenticate requests
    call_result,            \* how the last _ubus_call ended
    calls,                  \* _ubus_call invocations so far
    \* ---- log line round trip (monitor.main print, LogParser._parse_line) ----
    rt_input,               \* the values the scheduler holds when it prints
    rt_line,                \* the printed line
    rt_parsed,              \* what _parse_line made of the line
    rt_pc,                  \* "input" | "printed" | "parsed"
    \* ---- log analyzer (LogParser) ----
    log_file,               \* the rows of LOG_FILE below the header, as printed
    bursts,                 \* times the scheduler has appended rows
    cache,                  \* LogParser.cache
    response,               \* what the analyzer call in progress returned
    \* ---- Teltonika WAN inference (TeltonikaCollector.get_connection_status) ----
    tel_in,                 \* cell_iface and what the router answers to each command
    tel_out,                \* what get_connection_status did with it
    \* ---- FX4200 polling cycle (refresh_data and the accessors) ----
    cached,                 \* self._cached
    fx_cycles,              \* refresh_data invocations so far
    fx_refreshed,           \* what refresh_data returned in this cycle
    fx_batch_requests,      \* requests refresh_data sent in this cycle
    fx_cycle_requests,      \* requests sent in this cycle, by anything
    fx_reads,               \* accessor calls made in this cycle
    fx_value,               \* the last accessor called in this cycle and what it returned
    \* ---- startup (monitor.main up to the loop, build_cellular_collector) ----
    config,                 \* device_type, device.ssh.host and device.password as loaded
    st_pc,                  \* "start" | "running" | "failed" (configuration error) | "crashed"
    cellular,               \* the collector build_cellular_collector returned
    st_ticks,               \* loop iterations this process has started
    st_record,              \* WanStatus, WanSource and RSRP of the last record printed
    \* ---- connection status of the three collectors (get_connection_status) ----
    conn_in,                \* the collector variant and what its device answers
    conn_out,               \* the dict get_connection_status returned
    \* ---- polling cycles of TeltonikaCollector (refresh_data and the accessors) ----
    use_collector_script,   \* TeltonikaCollector.use_collector_script
    tel_cached_data,        \* TeltonikaCollector._cached_data: "None" | "dict" | "list"
    tel_router,             \* how the router answers in this cycle
    tel_pc,                 \* calls of the cycle made so far: 0 none, 1 refresh_data, 2..6 accessors
    tel_sessions,           \* ssh sessions opened so far in this cycle
    tel_cycles              \* polling cycles started

mon_vars == <<device_type, public_ip_refresh, pc, clock, last_public_ip,
              next_public_ip_refresh, record, timestamp, ticks, emitted, failed,
              refresh_outcome, ping_result, ping_tick, public_ip_called,
              public_ip_answer>>

ubus_vars == <<session_token, session_created, rpc_id, uclock, sent, received,
               discards, auth_replies, call_result, calls>>

rt_vars == <<rt_input, rt_line, rt_parsed, rt_pc>>

an_vars == <<log_file, bursts, cache, response>>

tel_vars == <<tel_in, tel_out>>

fx_vars == <<cached, fx_cycles, fx_refreshed, fx_batch_requests, fx_cycle_requests, fx_reads,
             fx_value>>

st_vars == <<config, st_pc, cellular, st_ticks, st_record>>

conn_vars == <<conn_in, conn_out>>

tc_vars == <<use_collector_script, tel_cached_data, tel_router, tel_pc, tel_sessions, tel_cycles>>

vars == <<mon_vars, ubus_vars, rt_vars, an_vars, tel_vars, fx_vars, st_vars, conn_vars, tc_vars>>

\* What the actions of one component leave alone
not_mon == <<ubus_vars, rt_vars, an_vars, tel_vars, fx_vars, st_vars, conn_vars, tc_vars>>
not_ubus == <<mon_vars, rt_vars, an_vars, tel_vars, fx_vars, st_vars, conn_vars, tc_vars>>
not_rt == <<mon_vars, ubus_vars, an_vars, tel_vars, fx_vars, st_vars, conn_vars, tc_vars>>
not_an == <<mon_vars, ubus_vars, rt_vars, tel_vars, fx_vars, st_vars, conn_vars, tc_vars>>
not_tel == <<mon_vars, ubus_vars, rt_vars, an_vars, fx_vars, st_vars, conn_vars, tc_vars>>
not_st == <<mon_vars, ubus_vars, rt_vars, an_vars, tel_vars, fx_vars, conn_vars, tc_vars>>
not_conn == <<mon_vars, ubus_vars, rt_vars, an_vars, tel_vars, fx_vars, st_vars, tc_vars>>
not_tc == <<mon_vars, ubus_vars, rt_vars, an_vars, tel_vars, fx_vars, st_vars, conn_vars>>
\* The polling cycle of the FX4200 uses the session of the RPC client
not_fx == <<mon_vars, rt_vars, an_vars, tel_vars, st_vars, conn_vars, tc_vars>>

----------------------------------------------------------------------------
(* Bounds *)

MaxTicks == 3
MaxSetBack == 6
MaxCalls == 2
MaxUbusTime == 2
MaxBursts == 3
MaxRows == 4
MaxCycles == 2
MaxReads == 3
MaxLate == 2

----------------------------------------------------------------------------
(* Python values *)

PyNone == [t |-> "none"]
PyInt(i) == [t |-> "int", i |-> i]
PyStr(s) == [t |-> "str", s |-> s]
PyBool(b) == [t |-> "bool", b |-> b]

\* Python truth value of a value
Truthy(v) ==
    CASE v.t = "none" -> FALSE
      [] v.t = "int"  -> v.i # 0
      [] v.t = "str"  -> v.s # <<>>
      [] v.t = "bool" -> v.b

\* Python `a or b`
PyOr(a, b) == IF Truthy(a) THEN a ELSE b

\* Python equality of two values (an int never equals a str or None)
PyEq(a, b) ==
    /\ a.t = b.t
    /\ CASE a.t = "none" -> TRUE
         [] a.t = "int"  -> a.i = b.i
         [] a.t = "str"  -> a.s = b.s
         [] a.t = "bool" -> a.b = b.b

Digit == <<"0", "1", "2", "3", "4", "5", "6", "7", "8", "9">>

RECURSIVE NatToStr(_)
NatToStr(n) ==
    IF n < 10 THEN <<Digit[n + 1]>>
    ELSE NatToStr(n \div 10) \o <<Digit[(n % 10) + 1]>>

\* str(i) for an int
IntToStr(i) == IF i < 0 THEN <<"-">> \o NatToStr(0 - i) ELSE NatToStr(i)

TrueStr == <<"T", "r", "u", "e">>
FalseStr == <<"F", "a", "l", "s", "e">>
NoneStr == <<"N", "o", "n", "e">>

\* f"{v}": the text an f-string puts for a value
Format(v) ==
    CASE v.t = "none" -> NoneStr
      [] v.t = "int"  -> IntToStr(v.i)
      [] v.t = "str"  -> v.s
      [] v.t = "bool" -> IF v.b THEN TrueStr ELSE FalseStr

\* d.get(k, default)
DictGet(d, k, default) == IF k \in DOMAIN d THEN d[k] ELSE default

EmptyDict == <<>>
EmptyStr == PyStr(<<>>)

----------------------------------------------------------------------------
(* Text *)

Upper == <<"A", "B", "C", "D", "E", "F", "G", "H", "I", "J", "K", "L", "M",
           "N", "O", "P", "Q", "R", "S", "T", "U", "V", "W", "X", "Y", "Z">>
LowerCase == <<"a", "b", "c", "d", "e", "f", "g", "h", "i", "j", "k", "l", "m",
               "n", "o", "p", "q", "r", "s", "t", "u", "v", "w", "x", "y", "z">>

LowerChar(c) ==
    IF \E i \in 1..26 : Upper[i] = c
    THEN LowerCase[CHOOSE i \in 1..26 : Upper[i] = c]
    ELSE c

\* str.lower()
Lower(s) == [i \in 1..Len(s) |-> LowerChar(s[i])]

Tab == "\t"
Whitespace == {" ", "\t", "\n", "\r"}

IsDigit(c) == \E i \in 1..10 : Digit[i] = c
DigitVal(c) == (CHOOSE i \in 1..10 : Digit[i] = c) - 1

RECURSIVE LStrip(_)
LStrip(s) == IF s # <<>> /\ Head(s) \in Whitespace THEN LStrip(Tail(s)) ELSE s

RECURSIVE RStrip(_)
RStrip(s) ==
    IF s # <<>> /\ s[Len(s)] \in Whitespace THEN RStrip(SubSeq(s, 1, Len(s) - 1)) ELSE s

\* str.strip()
Strip(s) == LStrip(RStrip(s))

RECURSIVE DigitsVal(_, _)
DigitsVal(s, acc) ==
    IF s = <<>> THEN acc ELSE DigitsVal(Tail(s), acc * 10 + DigitVal(Head(s)))

ValueError == [ok |-> FALSE]

\* int(s) for a str: optional surrounding whitespace, optional sign, one or
\* more decimal digits; anything else is a ValueError
StrToInt(s) ==
    LET t == Strip(s)
        signed == t # <<>> /\ Head(t) \in {"-", "+"}
        digits == IF signed THEN Tail(t) ELSE t
    IN  IF digits # <<>> /\ \A i \in 1..Len(digits) : IsDigit(digits[i])
        THEN [ok |-> TRUE,
              v |-> IF signed /\ Head(t) = "-" THEN 0 - DigitsVal(digits, 0)
                    ELSE DigitsVal(digits, 0)]
        ELSE ValueError

RECURSIVE TakeToken(_)
TakeToken(s) ==
    IF s = <<>> \/ Head(s) \in Whitespace THEN <<>> ELSE <<Head(s)>> \o TakeToken(Tail(s))

\* int(str(x).split()[0]): the first whitespace-separated token as an int;
\* IndexError (no token) and ValueError both give ok = FALSE
FirstTokenInt(s) ==
    LET t == TakeToken(LStrip(s))
    IN  IF t = <<>> THEN ValueError ELSE StrToInt(t)

\* "\t".join(cols), as the f-string of main builds the line
RECURSIVE JoinTabs(_)
JoinTabs(cols) ==
    IF Len(cols) = 0 THEN <<>>
    ELSE IF Len(cols) = 1 THEN cols[1]
    ELSE cols[1] \o <<Tab>> \o JoinTabs(Tail(cols))

\* The fields csv.reader(delimiter="\t") cuts a line into (no field of the
\* model holds a quote character): the text between consecutive tabs
SplitTabs(line) ==
    LET tabs == {i \in 1..Len(line) : line[i] = Tab}
        nth(k) == IF k = 0 THEN 0
                  ELSE IF k > Cardinality(tabs) THEN Len(line) + 1
                  ELSE CHOOSE p \in tabs : Cardinality({q \in tabs : q < p}) = k - 1
    IN  [k \in 1..(Cardinality(tabs) + 1) |-> SubSeq(line, nth(k - 1) + 1, nth(k) - 1)]

----------------------------------------------------------------------------
(* The polling scheduler: src/monitor.py *)

DeviceTypes == {"fx3110", "fx4200", "rutm50"}

Accessors == {"get_signal_metrics", "get_network_info", "get_connection_status",
              "get_sim_info", "get_device_info"}

\* The columns each accessor's dict feeds in the printed line
GroupFields == [
    get_signal_metrics    |-> {"RSRP", "RSRQ", "SNR", "RSSI"},
    get_network_info      |-> {"Tech", "Band", "Bandwidth", "Carrier"},
    get_connection_status |-> {"WanStatus", "WanSource", "DeviceIPv4"},
    get_sim_info          |-> {"SimStatus", "APN", "ICCID"},
    get_device_info       |-> {"Model", "Manufacturer", "Firmware", "IMEI", "Serial"}]

\* monitor.loop_interval default, in seconds
loop_interval == 5

\* network.public_ip_refresh values tried (0 = every tick)
PublicIpRefreshValues == {0, 10}

\* STATUS_REFRESH_SECONDS values an operator can set (0 = every cycle): the
\* device-status cadence of the legacy monitor, which monitor.main and
\* _apply_env_overrides do not read
StatusRefreshValues == {0, 10}

dest == <<"8", ".", "8", ".", "8", ".", "8">>

\* Whether the collector class built for a device type defines refresh_data:
\* InseegoFX4200Collector and TeltonikaCollector do, InseegoCollector does not.
HasRefreshData(dt) == dt \in {"fx4200", "rutm50"}

\* What cellular.refresh_data() can do for a device type.  fx4200: the batch
\* succeeded or an exception was caught inside refresh_data; rutm50 (no
\* collector script): the no-op; fx3110: the attribute lookup raises.
RefreshOutcomes(dt) ==
    CASE dt = "fx4200" -> {"True", "False"}
      [] dt = "rutm50" -> {"True"}
      [] OTHER         -> {"AttributeError"}

\* Two device readings the accessors can report
Readings == {1, 2}

SignalDict(r) ==
    IF r = 1
    THEN [rsrp |-> PyInt(-91), rsrq |-> PyInt(-11), snr |-> PyInt(0), rssi |-> PyNone]
    ELSE [rsrp |-> PyInt(-105), rsrq |-> PyInt(-14), snr |-> PyInt(7), rssi |-> PyInt(-60)]

NetworkDict(r) ==
    IF r = 1
    THEN [carrier |-> PyStr(<<"V", "Z", "W">>), technology |-> PyStr(<<"L", "T", "E">>),
          band |-> PyStr(<<"B", "1", "3">>), bandwidth |-> PyStr(<<>>)]
    ELSE [carrier |-> PyStr(<<"A", "T", "T">>), technology |-> PyStr(<<"5", "G">>),
          band |-> PyStr(<<"n", "7", "7">>), bandwidth |-> PyStr(<<"2", "0">>)]

ConnectionDict(r) ==
    IF r = 1
    THEN [wan_status |-> PyStr(<<"C", "o", "n", "n", "e", "c", "t", "e", "d">>),
          wan_source |-> PyStr(<<"C", "e", "l", "l", "u", "l", "a", "r">>),
          device_ipv4 |-> PyStr(<<"1", "0", ".", "0", ".", "0", ".", "2">>)]
    ELSE [wan_status |-> PyStr(<<"C", "o", "n", "n", "e", "c", "t", "e", "d">>),
          wan_source |-> PyStr(<<"E", "t", "h", "e", "r", "n", "e", "t">>),
          device_ipv4 |-> PyStr(<<"1", "0", ".", "0", ".", "0", ".", "9">>)]

SimDict(r) ==
    IF r = 1
    THEN [apn |-> PyStr(<<"v", "z", "w">>), iccid |-> PyStr(<<"8", "9", "1">>),
          sim_status |-> PyStr(<<"R", "e", "a", "d", "y">>)]
    ELSE [apn |-> PyStr(<<"a", "t", "t">>), iccid |-> PyStr(<<"8", "9", "2">>),
          sim_status |-> PyStr(<<"R", "e", "a", "d", "y">>)]

DeviceDict(r) ==
    [model |-> PyStr(<<"F", "X">>), manufacturer |-> PyStr(<<"I", "n", "s">>),
     firmware |-> PyStr(IF r = 1 THEN <<"1", ".", "0">> ELSE <<"1", ".", "1">>),
     imei |-> PyStr(<<"3", "5">>), serial |-> PyStr(<<"S", "1">>)]

AccessorDict(a, r) ==
    CASE a = "get_signal_metrics"    -> SignalDict(r)
      [] a = "get_network_info"      -> NetworkDict(r)
      [] a = "get_connection_status" -> ConnectionDict(r)
      [] a = "get_sim_info"          -> SimDict(r)
      [] a = "get_device_info"       -> DeviceDict(r)

\* The sets of accessors that raise (or time out) in one tick
FailureSets == {S \in SUBSET Accessors : Cardinality(S) <= 1} \cup {Accessors}

Raised == [raised |-> TRUE]
Returned(v) == [raised |-> FALSE, value |-> v]

\* What calling accessor a does in a tick where the set f raises
AccessorCall(a, r, f) == IF a \in f THEN Raised ELSE Returned(AccessorDict(a, r))

\* safe_get(fn, default): default is <<>> for None, <<v>> otherwise
safe_get(o, default) ==
    IF o.raised
    THEN (IF Len(default) > 0 THEN default[1] ELSE EmptyDict)
    ELSE o.value

SrcIp == <<"1", "0", ".", "1", ".", "1", ".", "5">>

\* RPiNetworkCollector.ping: the dicts it can return (it catches every
\* exception itself), paired with get_active_interface's answer
ProbeOutcomes == {
    [ping |-> [success |-> PyBool(TRUE), latency_ms |-> PyInt(23), source_ip |-> PyStr(SrcIp)],
     active_if |-> PyStr(<<"e", "t", "h", "0">>)],
    [ping |-> [success |-> PyBool(TRUE), latency_ms |-> PyInt(0), source_ip |-> PyStr(SrcIp)],
     active_if |-> PyStr(<<"e", "t", "h", "0">>)],
    [ping |-> [success |-> PyBool(FALSE), latency_ms |-> PyNone, source_ip |-> PyStr(SrcIp)],
     active_if |-> PyStr(<<"w", "w", "a", "n">>)],
    [ping |-> [success |-> PyBool(FALSE), latency_ms |-> PyNone, source_ip |-> PyStr(<<>>)],
     active_if |-> PyStr(<<"u", "n", "k", "n", "o", "w", "n">>)]}

PubIp == <<"2", "0", "3", ".", "0", ".", "1", "1", "3", ".", "7">>

PubIp2 == <<"1", "9", "8", ".", "5", "1", ".", "1", "0", "0", ".", "9">>

\* A tick in which the cadence has not elapsed does not call get_public_ip
NotAsked == [raised |-> FALSE, asked |-> FALSE]

\* RPiNetworkCollector.get_public_ip: an address, None, or an exception that
\* is not one of those it catches
PublicIpOutcomes == {Returned(PyStr(PubIp)), Returned(PyStr(PubIp2)), Returned(PyNone), Raised}

RECURSIVE PadLeft(_, _)
PadLeft(s, w) == IF Len(s) >= w THEN s ELSE PadLeft(<<"0">> \o s, w)

\* strftime("%Y-%m-%d %H:%M:%S.%f")[:-3]: fixed-width, zero-padded digits of
\* the clock reading
TsWidth == 4
FormatTimestamp(ts) == PadLeft(NatToStr(ts), TsWidth)

\* The line main prints, as its columns by header name
RenderRecord(ts, ping, active_if, pub, connection, sim_info, net_info, signal, device_info) ==
    [Timestamp       |-> FormatTimestamp(ts),
     SourceIP        |-> Format(DictGet(ping, "source_ip", EmptyStr)),
     ActiveInterface |-> Format(active_if),
     DestIP          |-> dest,
     Success         |-> Format(DictGet(ping, "success", PyBool(FALSE))),
     Latency_ms      |-> Format(PyOr(DictGet(ping, "latency_ms", PyNone), EmptyStr)),
     PublicIP        |-> pub,
     WanStatus       |-> Format(DictGet(connection, "wan_status", EmptyStr)),
     WanSource       |-> Format(DictGet(connection, "wan_source", EmptyStr)),
     SimStatus       |-> Format(DictGet(sim_info, "sim_status", EmptyStr)),
     Tech            |-> Format(DictGet(net_info, "technology", EmptyStr)),
     Band            |-> Format(DictGet(net_info, "band", EmptyStr)),
     Bandwidth       |-> Format(DictGet(net_info, "bandwidth", EmptyStr)),
     DeviceIPv4      |-> Format(DictGet(connection, "device_ipv4", EmptyStr)),
     Carrier         |-> Format(DictGet(net_info, "carrier", EmptyStr)),
     APN             |-> Format(DictGet(sim_info, "apn", EmptyStr)),
     ICCID           |-> Format(DictGet(sim_info, "iccid", EmptyStr)),
     RSRP            |-> Format(PyOr(DictGet(signal, "rsrp", PyNone), EmptyStr)),
     RSRQ            |-> Format(PyOr(DictGet(signal, "rsrq", PyNone), EmptyStr)),
     SNR             |-> Format(PyOr(DictGet(signal, "snr", PyNone), EmptyStr)),
     RSSI            |-> Format(PyOr(DictGet(signal, "rssi", PyNone), EmptyStr)),
     Model           |-> Format(DictGet(device_info, "model", EmptyStr)),
     Manufacturer    |-> Format(DictGet(device_info, "manufacturer", EmptyStr)),
     Firmware        |-> Format(DictGet(device_info, "firmware", EmptyStr)),
     IMEI            |-> Format(DictGet(device_info, "imei", EmptyStr)),
     Serial          |-> Format(DictGet(device_info, "serial", EmptyStr))]

Columns == {"Timestamp", "SourceIP", "ActiveInterface", "DestIP", "Success",
            "Latency_ms", "PublicIP", "WanStatus", "WanSource", "SimStatus", "Tech",
            "Band", "Bandwidth", "DeviceIPv4", "Carrier", "APN", "ICCID", "RSRP",
            "RSRQ", "SNR", "RSSI", "Model", "Manufacturer", "Firmware", "IMEI", "Serial"}

NoRecord == [c \in Columns |-> <<>>]
NoPing == [success |-> PyBool(FALSE), latency_ms |-> PyNone, source_ip |-> PyStr(<<>>)]

MonInit ==
    /\ device_type \in DeviceTypes
    /\ public_ip_refresh \in PublicIpRefreshValues
    /\ pc = "running"
    /\ clock = 0
    /\ last_public_ip = <<>>
    /\ next_public_ip_refresh = 0
    /\ record = NoRecord
    /\ timestamp = 0
    /\ ticks = 0
    /\ emitted = 0
    /\ failed = {}
    /\ refresh_outcome = "none"
    /\ ping_result = NoPing
    /\ ping_tick = 0
    /\ public_ip_called = FALSE
    /\ public_ip_answer = NotAsked

\* A variant that stores whatever the query gave
NewLastPublicIp_overwrite(due, public_ip, last) ==
    IF due THEN Format(public_ip) ELSE last

\* if public_ip: last_public_ip = public_ip, in a tick whose query is due
NewLastPublicIp(due, public_ip, last) ==
    IF due /\ Truthy(public_ip) THEN public_ip.s ELSE last

\* One iteration of `while True` in main, from time.time() to time.sleep()
Tick ==
    /\ pc = "running"
    /\ ticks < MaxTicks
    /\ \E pub \in PublicIpOutcomes, ref \in RefreshOutcomes(device_type),
          r \in Readings, f \in FailureSets, p \in ProbeOutcomes :
        LET now == clock
            due == now >= next_public_ip_refresh
            public_ip == safe_get(pub, <<PyStr(last_public_ip)>>)
            new_last == NewLastPublicIp(due, public_ip, last_public_ip)
            new_next == IF due THEN now + public_ip_refresh ELSE next_public_ip_refresh
            signal == safe_get(AccessorCall("get_signal_metrics", r, f), <<EmptyDict>>)
            net_info == safe_get(AccessorCall("get_network_info", r, f), <<EmptyDict>>)
            connection == safe_get(AccessorCall("get_connection_status", r, f), <<EmptyDict>>)
            sim_info == safe_get(AccessorCall("get_sim_info", r, f), <<EmptyDict>>)
            device_info == safe_get(AccessorCall("get_device_info", r, f), <<EmptyDict>>)
            ping == safe_get(Returned(p.ping), <<EmptyDict>>)
            active_if == safe_get(Returned(p.active_if), <<PyStr(<<"u", "n", "k", "n", "o", "w", "n">>)>>)
            ts == clock
        IN  /\ ticks' = ticks + 1
            /\ last_public_ip' = new_last
            /\ next_public_ip_refresh' = new_next
            /\ public_ip_called' = due
            /\ public_ip_answer' = IF due THEN pub ELSE NotAsked
            /\ refresh_outcome' = ref
            /\ IF ~HasRefreshData(device_type)
               THEN \* cellular.refresh_data raises AttributeError out of main
                    /\ pc' = "crashed"
                    /\ failed' = {}
                    /\ UNCHANGED <<record, timestamp, emitted, ping_result, ping_tick, clock>>
               ELSE /\ pc' = "running"
                    /\ failed' = f
                    /\ ping_result' = ping
                    /\ ping_tick' = ticks + 1
                    /\ timestamp' = ts
                    /\ record' = RenderRecord(ts, ping, active_if, new_last, connection,
                                              sim_info, net_info, signal, device_info)
                    /\ emitted' = emitted + 1
                    /\ clock' = clock + loop_interval
    /\ UNCHANGED <<device_type, public_ip_refresh>>
    /\ UNCHANGED not_mon

\* The system clock is set back (NTP step, manual change, end of daylight
\* saving time: datetime.now() is naive local time) while main sleeps
ClockSetBack ==
    /\ pc = "running"
    /\ clock >= MaxSetBack
    /\ clock' = clock - MaxSetBack
    /\ UNCHANGED <<device_type, public_ip_refresh, pc, last_public_ip,
                   next_public_ip_refresh, record, timestamp, ticks, emitted, failed,
                   refresh_outcome, ping_result, ping_tick, public_ip_called,
                   public_ip_answer>>
    /\ UNCHANGED not_mon

\* The scheduler's variables while another component is explored
MonIdle ==
    /\ device_type = "fx4200"
    /\ public_ip_refresh = 0
    /\ pc = "running"
    /\ clock = 0
    /\ last_public_ip = <<>>
    /\ next_public_ip_refresh = 0
    /\ record = NoRecord
    /\ timestamp = 0
    /\ ticks = 0
    /\ emitted = 0
    /\ failed = {}
    /\ refresh_outcome = "none"
    /\ ping_result = NoPing
    /\ ping_tick = 0
    /\ public_ip_called = FALSE
    /\ public_ip_answer = NotAsked

----------------------------------------------------------------------------
(* The session RPC client: src/collectors/inseego_fx4200.py *)

NoToken == "None"
Tokens == {"t1", "t2"}

\* InseegoFX4200Collector.__init__ default, in seconds
session_refresh == 500

\* Seconds that pass between two calls when time passes
UbusTimeStep == 250

\* Replies to an authenticate request: a session token, or a failure (a reply
\* without session_token, or _raw_post raising)
AuthResponses == Tokens \cup {"fail"}

\* Replies to a data request: {"error": ...}; {"result": [0, {...}]};
\* {"result": [0]}; {"result": [6]} (code only, non-zero); _raw_post raising
DataResponses == {"error", "data", "code0", "denied", "exc"}
Rejections == {"error", "denied"}

\* The replies the device gives to the successive authenticate requests and
\* to the successive data requests of one call ("-": never asked for)
AuthScripts ==
    {s \in [1..3 -> AuthResponses \cup {"-"}] :
        /\ s[1] # "-"
        /\ (s[1] = "fail" <=> s[2] = "-")
        /\ (s[2] \in {"fail", "-"} <=> s[3] = "-")}

DataScripts ==
    {s \in [1..3 -> DataResponses \cup {"-"}] :
        /\ s[1] # "-"
        /\ (s[1] \notin Rejections <=> s[2] = "-")
        /\ (s[3] # "-" <=> (s[1] = "error" /\ s[2] = "denied"))}

\* The collector while it runs one method: its fields, the requests posted,
\* the replies consumed, and whether an exception is propagating
Machine(tok, created, id) ==
    [token |-> tok, created |-> created, id |-> id, sent |-> <<>>, received |-> <<>>,
     na |-> 0, discards |-> 0, auth_replies |-> <<>>, raised |-> FALSE, resp |-> "-"]

\* A variant that still accepts the token at the refresh age
_is_session_valid_le(m, now) ==
    /\ m.token # NoToken
    /\ (now - m.created) <= session_refresh

_is_session_valid(m, now) ==
    /\ m.token # NoToken
    /\ (now - m.created) < session_refresh

\* _authenticate: one request; stores token and time, or raises
_authenticate(m, now, as) ==
    LET resp == as[m.na + 1]
        m1 == [m EXCEPT !.id = @ + 1, !.sent = Append(@, "authenticate"), !.na = @ + 1,
                        !.auth_replies = Append(@, resp)]
    IN  IF resp \in Tokens
        THEN [m1 EXCEPT !.token = resp, !.created = now]
        ELSE [m1 EXCEPT !.raised = TRUE]

\* A variant that authenticates a second time when the first attempt fails
_ensure_session_again(m, now, as) ==
    IF ~_is_session_valid(m, now)
    THEN LET m1 == _authenticate(m, now, as)
         IN  IF m1.raised THEN _authenticate([m1 EXCEPT !.raised = FALSE], now, as) ELSE m1
    ELSE m

_ensure_session(m, now, as) ==
    IF ~_is_session_valid(m, now) THEN _authenticate(m, now, as) ELSE m

\* payload["id"] = self._next_id(); resp = self._raw_post(payload)
_raw_post(m, ds) ==
    LET resp == ds[Len(m.received) + 1]
        m1 == [m EXCEPT !.id = @ + 1, !.sent = Append(@, "call"),
                        !.received = Append(@, resp), !.resp = resp]
    IN  IF resp = "exc" THEN [m1 EXCEPT !.raised = TRUE] ELSE m1

\* self._session_token = None; token = self._ensure_session(); ...; _raw_post
ReauthAndRetry(m, now, as, ds) ==
    LET m1 == [m EXCEPT !.token = NoToken, !.discards = @ + 1]
        m2 == _ensure_session(m1, now, as)
    IN  IF m2.raised THEN m2 ELSE _raw_post(m2, ds)

\* _ubus_call: the machine when it ends, with result "data" (a data dict is
\* returned), "empty" ({} is returned) or "raised"
_ubus_call(m, now, as, ds) ==
    LET m1 == _ensure_session(m, now, as)
        m2 == IF m1.raised THEN m1 ELSE _raw_post(m1, ds)
        m3 == IF ~m2.raised /\ m2.resp = "error"
              THEN ReauthAndRetry(m2, now, as, ds) ELSE m2
        m4 == IF ~m3.raised /\ m3.resp = "denied"
              THEN ReauthAndRetry(m3, now, as, ds) ELSE m3
        result == CASE m4.raised -> "raised"
                    [] m4.resp = "data" -> "data"
                    [] OTHER -> "empty"
    IN  [m |-> m4, result |-> result]

UbusInit ==
    /\ session_token = NoToken
    /\ session_created = 0
    /\ rpc_id = 0
    /\ uclock = 0
    /\ sent = <<>>
    /\ received = <<>>
    /\ discards = 0
    /\ auth_replies = <<>>
    /\ call_result = "none"
    /\ calls = 0

UbusIdle == UbusInit

\* One invocation of _ubus_call against a device that answers by the scripts
UbusCall ==
    /\ calls < MaxCalls
    /\ \E as \in AuthScripts, ds \in DataScripts :
        LET r == _ubus_call(Machine(session_token, session_created, rpc_id), uclock, as, ds)
        IN  /\ session_token' = r.m.token
            /\ session_created' = r.m.created
            /\ rpc_id' = r.m.id
            /\ sent' = r.m.sent
            /\ received' = r.m.received
            /\ discards' = r.m.discards
            /\ auth_replies' = r.m.auth_replies
            /\ call_result' = r.result
    /\ calls' = calls + 1
    /\ UNCHANGED uclock
    /\ UNCHANGED not_ubus

\* Time passes between two calls
UbusTimePasses ==
    /\ uclock < MaxUbusTime * UbusTimeStep
    /\ uclock' = uclock + UbusTimeStep
    /\ UNCHANGED <<session_token, session_created, rpc_id, sent, received, discards,
                   auth_replies, call_result, calls>>
    /\ UNCHANGED not_ubus

----------------------------------------------------------------------------
(* The log format: the line main prints and LogParser._parse_line *)

\* The header main prints, which csv.DictReader takes as field names
Header == <<"Timestamp", "SourceIP", "ActiveInterface", "DestIP", "Success",
            "Latency_ms", "PublicIP", "WanStatus", "WanSource", "SimStatus", "Tech",
            "Band", "Bandwidth", "DeviceIPv4", "Carrier", "APN", "ICCID", "RSRP",
            "RSRQ", "SNR", "RSSI", "Model", "Manufacturer", "Firmware", "IMEI", "Serial">>

\* The line of a record: its columns in header order, joined by tabs
RecordLine(rec) == JoinTabs([i \in 1..Len(Header) |-> rec[Header[i]]])

\* The row csv.DictReader yields for a line: a short line leaves the missing
\* columns None (restval)
DictRow(line) ==
    LET vals == SplitTabs(line)
    IN  [c \in Columns |->
            LET i == CHOOSE j \in 1..Len(Header) : Header[j] = c
            IN  IF i <= Len(vals) THEN PyStr(vals[i]) ELSE PyNone]

\* LogParser._parse_line: kind "entry" with the parsed dict, "none" when a
\* ValueError is caught (None is returned), "raise" when the exception is
\* not one of those caught (.lower() of None)
_parse_line(row) ==
    LET get(c) == DictGet(row, c, EmptyStr)
        lat == DictGet(row, "Latency_ms", PyNone)
        latInt == StrToInt(PyOr(lat, PyStr(<<"0">>)).s)
    IN  IF get("Success").t = "none" THEN [kind |-> "raise"]
        ELSE IF Truthy(lat) /\ ~latInt.ok THEN [kind |-> "none"]
        ELSE [kind |-> "entry", entry |-> [
            timestamp        |-> get("Timestamp"),
            source_ip        |-> get("SourceIP"),
            active_interface |-> get("ActiveInterface"),
            dest_ip          |-> get("DestIP"),
            success          |-> PyBool(Lower(get("Success").s) = <<"t", "r", "u", "e">>),
            latency_ms       |-> IF Truthy(lat) THEN PyInt(latInt.v) ELSE PyNone,
            public_ip        |-> get("PublicIP"),
            wan_status       |-> get("WanStatus"),
            wan_source       |-> get("WanSource"),
            sim_status       |-> get("SimStatus"),
            technology       |-> get("Tech"),
            band             |-> get("Band"),
            bandwidth        |-> get("Bandwidth"),
            device_ipv4      |-> get("DeviceIPv4"),
            carrier          |-> get("Carrier"),
            apn              |-> get("APN"),
            iccid            |-> get("ICCID"),
            ecgi             |-> get("ECGI"),
            pci              |-> get("PCI"),
            rsrp             |-> get("RSRP"),
            rsrq             |-> get("RSRQ"),
            snr              |-> get("SNR"),
            rssi             |-> get("RSSI"),
            model            |-> get("Model"),
            manufacturer     |-> get("Manufacturer"),
            firmware         |-> get("Firmware"),
            imei             |-> get("IMEI"),
            serial           |-> get("Serial"),
            conn_dev_count   |-> get("ConnDevCount"),
            conn_dev_names   |-> get("ConnDevNames")]]

\* The numeric values a LogRecord can hold: an integer or absent
LatencyValues == {PyNone, PyInt(0), PyInt(23)}
RsrpValues == {PyNone, PyInt(-91), PyInt(0)}
RsrqValues == {PyNone, PyInt(-11)}
SnrValues == {PyNone, PyInt(0), PyInt(7), PyInt(-3)}
RssiValues == {PyNone, PyInt(-60)}

NoLine == <<>>
NoParse == [kind |-> "pending"]

RtInit ==
    /\ rt_input \in [ts : {7}, reading : Readings, success : {PyBool(TRUE), PyBool(FALSE)},
                     latency_ms : LatencyValues, rsrp : RsrpValues, rsrq : RsrqValues,
                     snr : SnrValues, rssi : RssiValues]
    \* ping reports a latency only for a probe that succeeded
    /\ ~Truthy(rt_input.success) => rt_input.latency_ms = PyNone
    /\ rt_line = NoLine
    /\ rt_parsed = NoParse
    /\ rt_pc = "input"

RtIdle ==
    /\ rt_input = [ts |-> 7, reading |-> 1, success |-> PyBool(FALSE),
                   latency_ms |-> PyNone, rsrp |-> PyNone, rsrq |-> PyNone,
                   snr |-> PyNone, rssi |-> PyNone]
    /\ rt_line = NoLine
    /\ rt_parsed = NoParse
    /\ rt_pc = "input"

\* The dicts main holds for the input values
RtPing == [success |-> rt_input.success, latency_ms |-> rt_input.latency_ms,
           source_ip |-> PyStr(SrcIp)]
RtSignal == [rsrp |-> rt_input.rsrp, rsrq |-> rt_input.rsrq, snr |-> rt_input.snr,
             rssi |-> rt_input.rssi]

\* main prints the line of the record
PrintLine ==
    /\ rt_pc = "input"
    /\ rt_line' = RecordLine(RenderRecord(rt_input.ts, RtPing, PyStr(<<"e", "t", "h", "0">>),
                      PubIp, ConnectionDict(rt_input.reading), SimDict(rt_input.reading),
                      NetworkDict(rt_input.reading), RtSignal, DeviceDict(rt_input.reading)))
    /\ rt_pc' = "printed"
    /\ UNCHANGED <<rt_input, rt_parsed>>
    /\ UNCHANGED not_rt

\* The analyzer reads the line back
ParseLine ==
    /\ rt_pc = "printed"
    /\ rt_parsed' = _parse_line(DictRow(rt_line))
    /\ rt_pc' = "parsed"
    /\ UNCHANGED <<rt_input, rt_line>>
    /\ UNCHANGED not_rt

----------------------------------------------------------------------------
(* The log analyzer: LogParser in src/api/main.py *)

MAX_CACHE_LINES == 1000

\* detect_anomalies: records needed, window, events returned, and the
\* default thresholds of the endpoint
MinAnomalyRecords == 10
AnomalyWindow == 100
MaxAnomalies == 20
rsrp_threshold == 10
latency_threshold == 50
CriticalRsrp == -100
CriticalLatency == 500

\* s[-n:] of a Python list
LastN(s, n) ==
    IF n = 0 THEN s
    ELSE IF n > 0 THEN SubSeq(s, IF Len(s) > n THEN Len(s) - n + 1 ELSE 1, Len(s))
    ELSE SubSeq(s, (IF Len(s) > 0 - n THEN 0 - n ELSE Len(s)) + 1, Len(s))

\* sum(s[lo..hi])
RECURSIVE SumRange(_, _, _)
SumRange(s, lo, hi) ==
    IF lo > hi THEN 0
    ELSE IF lo = hi THEN s[lo]
    ELSE LET mid == (lo + hi) \div 2
         IN  SumRange(s, lo, mid) + SumRange(s, mid + 1, hi)

\* ss[lo] + ... + ss[hi] of lists
RECURSIVE ConcatRange(_, _, _)
ConcatRange(ss, lo, hi) ==
    IF lo > hi THEN <<>>
    ELSE IF lo = hi THEN ss[lo]
    ELSE LET mid == (lo + hi) \div 2
         IN  ConcatRange(ss, lo, mid) \o ConcatRange(ss, mid + 1, hi)

\* The kinds of rows the scheduler appends: a healthy tick; a tick whose
\* probe failed (ping reports no latency then) on a weak signal; a tick with
\* a slow probe and no signal reading
LogKinds == {"good", "weak", "slow"}

\* How many consecutive ticks of a kind the log gets: a long spell, or for
\* failed probes also a short outage
BurstSizes(k) == IF k = "weak" THEN {5, 50} ELSE {50}

KindPing(k) ==
    CASE k = "good" -> [success |-> PyBool(TRUE), latency_ms |-> PyInt(23),
                        source_ip |-> PyStr(SrcIp)]
      [] k = "weak" -> [success |-> PyBool(FALSE), latency_ms |-> PyNone,
                        source_ip |-> PyStr(SrcIp)]
      [] k = "slow" -> [success |-> PyBool(TRUE), latency_ms |-> PyInt(600),
                        source_ip |-> PyStr(SrcIp)]

KindSignal(k) ==
    CASE k = "good" -> [rsrp |-> PyInt(-91), rsrq |-> PyInt(-11), snr |-> PyInt(7),
                        rssi |-> PyNone]
      [] k = "weak" -> [rsrp |-> PyInt(-105), rsrq |-> PyInt(-14), snr |-> PyInt(-3),
                        rssi |-> PyNone]
      [] k = "slow" -> EmptyDict

\* The row the scheduler prints for a tick of kind k as the n-th row
LogRow(k, n) ==
    RenderRecord(n, KindPing(k), PyStr(<<"e", "t", "h", "0">>), PubIp, ConnectionDict(1),
                 SimDict(1), NetworkDict(1), KindSignal(k), DeviceDict(1))

\* The rows csv.DictReader yields: a column the stored row does not reach is
\* None (restval)
FileRow(rec) == [c \in Columns |-> IF c \in DOMAIN rec THEN PyStr(rec[c]) ELSE PyNone]

\* A variant that keeps the first tail_lines rows of the file
reload_logs_head(rows, tail_lines) ==
    LET tail == SubSeq(rows, 1, IF Len(rows) > tail_lines THEN tail_lines ELSE Len(rows))
        parsed == [i \in 1..Len(tail) |-> _parse_line(FileRow(tail[i]))]
        raising == {i \in 1..Len(tail) : parsed[i].kind = "raise"}
        stop == IF raising = {} THEN Len(tail) + 1
                ELSE CHOOSE i \in raising : \A j \in raising : i <= j
        entries == [i \in 1..(stop - 1) |->
                       IF parsed[i].kind = "entry" THEN <<parsed[i].entry>> ELSE <<>>]
    IN  [cache  |-> LastN(ConcatRange(entries, 1, Len(entries)), MAX_CACHE_LINES),
         raised |-> raising # {}]

\* reload_logs: the cache rebuilt from the last tail_lines rows; a row that
\* _parse_line returns None for is skipped; a row on which _parse_line
\* raises ends the reload with the exception, the rows before it buffered
reload_logs(rows, tail_lines) ==
    LET tail == LastN(rows, tail_lines)
        parsed == [i \in 1..Len(tail) |-> _parse_line(FileRow(tail[i]))]
        raising == {i \in 1..Len(tail) : parsed[i].kind = "raise"}
        stop == IF raising = {} THEN Len(tail) + 1
                ELSE CHOOSE i \in raising : \A j \in raising : i <= j
        entries == [i \in 1..(stop - 1) |->
                       IF parsed[i].kind = "entry" THEN <<parsed[i].entry>> ELSE <<>>]
    IN  [cache  |-> LastN(ConcatRange(entries, 1, Len(entries)), MAX_CACHE_LINES),
         raised |-> raising # {}]

\* The int in an entry's rsrp text, if it has one: int(str(rsrp_str).split()[0])
\* under `if rsrp_str:` and try/except (ValueError, IndexError)
RsrpOf(entry) ==
    IF Truthy(entry.rsrp) THEN FirstTokenInt(entry.rsrp.s) ELSE ValueError

\* An average as the pair (count, sum); count 0 stands for None
Average(values) == [n |-> Len(values), sum |-> SumRange(values, 1, Len(values))]

\* `if avg:` for sum / n or None
AvgTruthy(avg) == avg.n > 0 /\ avg.sum # 0

\* The baseline averages of detect_anomalies
BaselineRsrp(baseline) ==
    Average(ConcatRange([i \in 1..Len(baseline) |->
                IF RsrpOf(baseline[i]).ok THEN <<RsrpOf(baseline[i]).v>> ELSE <<>>],
            1, Len(baseline)))

BaselineLatency(baseline) ==
    Average(ConcatRange([i \in 1..Len(baseline) |->
                IF Truthy(baseline[i].latency_ms) THEN <<baseline[i].latency_ms.i>> ELSE <<>>],
            1, Len(baseline)))

Event(entry, type, severity) ==
    [timestamp |-> entry.timestamp, type |-> type, severity |-> severity]

\* A variant that flags the failed probe only when nothing else was flagged
EntryAnomalies_elif(entry, avg_rsrp, avg_latency, rsrp_thr, latency_thr) ==
    LET r == RsrpOf(entry)
        drop == IF AvgTruthy(avg_rsrp) /\ r.ok
                   /\ r.v * avg_rsrp.n < avg_rsrp.sum - rsrp_thr * avg_rsrp.n
                THEN <<Event(entry, "rsrp_drop",
                             IF r.v > CriticalRsrp THEN "warning" ELSE "critical")>>
                ELSE <<>>
        spike == IF AvgTruthy(avg_latency) /\ Truthy(entry.latency_ms)
                    /\ entry.latency_ms.i * avg_latency.n
                         > avg_latency.sum + latency_thr * avg_latency.n
                 THEN <<Event(entry, "latency_spike",
                              IF entry.latency_ms.i < CriticalLatency THEN "warning"
                              ELSE "critical")>>
                 ELSE <<>>
        ping == IF ~Truthy(entry.success) /\ drop = <<>> /\ spike = <<>>
                THEN <<Event(entry, "ping_failure", "critical")>>
                ELSE <<>>
    IN  drop \o spike \o ping

\* A variant that also flags an RSRP equal to the average less the threshold
EntryAnomalies_le(entry, avg_rsrp, avg_latency, rsrp_thr, latency_thr) ==
    LET r == RsrpOf(entry)
        drop == IF AvgTruthy(avg_rsrp) /\ r.ok
                   /\ r.v * avg_rsrp.n <= avg_rsrp.sum - rsrp_thr * avg_rsrp.n
                THEN <<Event(entry, "rsrp_drop",
                             IF r.v > CriticalRsrp THEN "warning" ELSE "critical")>>
                ELSE <<>>
        spike == IF AvgTruthy(avg_latency) /\ Truthy(entry.latency_ms)
                    /\ entry.latency_ms.i * avg_latency.n
                         > avg_latency.sum + latency_thr * avg_latency.n
                 THEN <<Event(entry, "latency_spike",
                              IF entry.latency_ms.i < CriticalLatency THEN "warning"
                              ELSE "critical")>>
                 ELSE <<>>
        ping == IF ~Truthy(entry.success)
                THEN <<Event(entry, "ping_failure", "critical")>>
                ELSE <<>>
    IN  drop \o spike \o ping

\* The body of `for entry in check_data`: the events appended for one entry
EntryAnomalies(entry, avg_rsrp, avg_latency, rsrp_thr, latency_thr) ==
    LET r == RsrpOf(entry)
        drop == IF AvgTruthy(avg_rsrp) /\ r.ok
                   /\ r.v * avg_rsrp.n < avg_rsrp.sum - rsrp_thr * avg_rsrp.n
                THEN <<Event(entry, "rsrp_drop",
                             IF r.v > CriticalRsrp THEN "warning" ELSE "critical")>>
                ELSE <<>>
        spike == IF AvgTruthy(avg_latency) /\ Truthy(entry.latency_ms)
                    /\ entry.latency_ms.i * avg_latency.n
                         > avg_latency.sum + latency_thr * avg_latency.n
                 THEN <<Event(entry, "latency_spike",
                              IF entry.latency_ms.i < CriticalLatency THEN "warning"
                              ELSE "critical")>>
                 ELSE <<>>
        ping == IF ~Truthy(entry.success)
                THEN <<Event(entry, "ping_failure", "critical")>>
                ELSE <<>>
    IN  drop \o spike \o ping

\* The half of the window that is only averaged
BaselineOf(recent) == SubSeq(recent, 1, Len(recent) \div 2)

\* The half of the window whose entries are flagged
CheckDataOf(recent) == SubSeq(recent, (Len(recent) \div 2) + 1, Len(recent))

\* A variant that returns every flagged event
ReturnedAnomalies_all(anomalies) == anomalies

\* How many of the flagged events are returned
ReturnedAnomalies(anomalies) == LastN(anomalies, MaxAnomalies)

\* LogParser.detect_anomalies on a cache
detect_anomalies(c, rsrp_thr, latency_thr) ==
    IF Len(c) < MinAnomalyRecords THEN <<>>
    ELSE LET recent == LastN(c, AnomalyWindow)
             baseline_data == BaselineOf(recent)
             avg_rsrp == BaselineRsrp(baseline_data)
             avg_latency == BaselineLatency(baseline_data)
             check_data == CheckDataOf(recent)
             flagged == [i \in 1..Len(check_data) |->
                            EntryAnomalies(check_data[i], avg_rsrp, avg_latency,
                                           rsrp_thr, latency_thr)]
         IN  ReturnedAnomalies(ConcatRange(flagged, 1, Len(flagged)))

NoResponse == [op |-> "none"]

AnInit ==
    /\ log_file = <<>>
    /\ bursts = 0
    /\ cache = <<>>
    /\ response = NoResponse

AnIdle == AnInit

\* The scheduler appends the rows of some ticks to the log
AppendRows ==
    /\ bursts < MaxBursts
    /\ \E k \in LogKinds : \E n \in BurstSizes(k) :
        log_file' = log_file \o [j \in 1..n |-> LogRow(k, Len(log_file) + j)]
    /\ bursts' = bursts + 1
    /\ response' = NoResponse
    /\ UNCHANGED cache
    /\ UNCHANGED not_an

\* GET /api/recent: get_recent reloads the log and returns the last entries
GetRecent ==
    /\ \E count \in {100} :
        LET r == reload_logs(log_file, MAX_CACHE_LINES)
        IN  /\ cache' = r.cache
            /\ response' = IF r.raised THEN [op |-> "get_recent", raised |-> TRUE]
                           ELSE [op |-> "get_recent", raised |-> FALSE,
                                 entries |-> LastN(r.cache, count)]
    /\ UNCHANGED <<log_file, bursts>>
    /\ UNCHANGED not_an

\* detect_changes: records needed, window, events returned
MinChangeRecords == 2
ChangeWindow == 100
MaxChanges == 20

watch_fields == <<"wan_source", "active_interface", "public_ip", "carrier", "apn", "iccid",
                  "device_ipv4">>

\* A variant that records every difference, also to an empty value
PairChanges_any(prev, curr) ==
    LET one(field) ==
            LET prev_val == DictGet(prev, field, EmptyStr)
                curr_val == DictGet(curr, field, EmptyStr)
            IN  IF ~PyEq(prev_val, curr_val)
                THEN <<[timestamp |-> curr.timestamp, field |-> field,
                        old_value |-> prev_val, new_value |-> curr_val]>>
                ELSE <<>>
    IN  ConcatRange([f \in 1..Len(watch_fields) |-> one(watch_fields[f])],
                    1, Len(watch_fields))

\* A variant that reports the new value as the old one
PairChanges_old(prev, curr) ==
    LET one(field) ==
            LET prev_val == DictGet(prev, field, EmptyStr)
                curr_val == DictGet(curr, field, EmptyStr)
            IN  IF ~PyEq(prev_val, curr_val) /\ Truthy(curr_val)
                THEN <<[timestamp |-> curr.timestamp, field |-> field,
                        old_value |-> curr_val, new_value |-> curr_val]>>
                ELSE <<>>
    IN  ConcatRange([f \in 1..Len(watch_fields) |-> one(watch_fields[f])],
                    1, Len(watch_fields))

\* The body of `for field in watch_fields` for one pair of consecutive entries
PairChanges(prev, curr) ==
    LET one(field) ==
            LET prev_val == DictGet(prev, field, EmptyStr)
                curr_val == DictGet(curr, field, EmptyStr)
            IN  IF ~PyEq(prev_val, curr_val) /\ Truthy(curr_val)
                THEN <<[timestamp |-> curr.timestamp, field |-> field,
                        old_value |-> prev_val, new_value |-> curr_val]>>
                ELSE <<>>
    IN  ConcatRange([f \in 1..Len(watch_fields) |-> one(watch_fields[f])],
                    1, Len(watch_fields))

\* How many of the recorded changes are returned
ReturnedChanges(changes) == LastN(changes, MaxChanges)

\* LogParser.detect_changes on a cache
detect_changes(c) ==
    IF Len(c) < MinChangeRecords THEN <<>>
    ELSE LET recent == LastN(c, ChangeWindow)
             pairs == [i \in 1..(Len(recent) - 1) |-> PairChanges(recent[i], recent[i + 1])]
         IN  ReturnedChanges(ConcatRange(pairs, 1, Len(pairs)))

\* What the device and the network report in a tick: reading 1, reading 2,
\* or nothing at all (0: every accessor failed, no address known)
TickReadings == {0, 1, 2}

\* The row the scheduler prints in such a tick as the n-th row
TickRow(r, n) ==
    IF r = 0
    THEN RenderRecord(n, KindPing("weak"), PyStr(<<"u", "n", "k", "n", "o", "w", "n">>), <<>>,
                      EmptyDict, EmptyDict, EmptyDict, EmptyDict, EmptyDict)
    ELSE RenderRecord(n, KindPing("good"),
                      PyStr(IF r = 1 THEN <<"e", "t", "h", "0">> ELSE <<"w", "w", "a", "n">>),
                      IF r = 1 THEN PubIp ELSE PubIp2,
                      ConnectionDict(r), SimDict(r), NetworkDict(r), SignalDict(r),
                      DeviceDict(r))

\* Where a line being appended can be seen cut: after cols columns, the last
\* of them short of chop characters
Cuts == {[cols |-> 3, chop |-> 0], [cols |-> 5, chop |-> 0], [cols |-> 6, chop |-> 1],
         [cols |-> 18, chop |-> 2]}

\* The part of a row a reader sees at a cut
PartialRow(rec, cut) ==
    [c \in {Header[i] : i \in 1..cut.cols} |->
        IF c = Header[cut.cols] THEN SubSeq(rec[c], 1, Len(rec[c]) - cut.chop) ELSE rec[c]]

\* Whether the last line of the log is a line cut short
EndsPartial(rows) == Len(rows) > 0 /\ DOMAIN rows[Len(rows)] # Columns

\* The scheduler appends the row of one tick
AppendTick ==
    /\ Len(log_file) < MaxRows
    /\ ~EndsPartial(log_file)
    /\ \E r \in TickReadings : log_file' = Append(log_file, TickRow(r, Len(log_file) + 1))
    /\ response' = NoResponse
    /\ UNCHANGED <<bursts, cache>>
    /\ UNCHANGED not_an

\* The scheduler runs on unattended: early in the log, as many ticks as
\* detect_changes looks back on are appended, all with the same readings
AppendQuietSpell ==
    /\ Len(log_file) \in 1..MinChangeRecords
    /\ ~EndsPartial(log_file)
    /\ \E r \in {1, 2} :
        log_file' = log_file \o [j \in 1..ChangeWindow |-> TickRow(r, Len(log_file) + j)]
    /\ response' = NoResponse
    /\ UNCHANGED <<bursts, cache>>
    /\ UNCHANGED not_an

\* The scheduler is in the middle of appending a row: the log ends with the
\* part written so far
AppendPartial ==
    /\ Len(log_file) < MaxRows
    /\ ~EndsPartial(log_file)
    /\ \E r \in {1, 2}, cut \in Cuts :
        log_file' = Append(log_file, PartialRow(TickRow(r, Len(log_file) + 1), cut))
    /\ response' = NoResponse
    /\ UNCHANGED <<bursts, cache>>
    /\ UNCHANGED not_an

\* The RSRP the device reports in the ticks of a baseline half: steady
\* readings, a stronger cell, and readings with gaps and an unreadable text
BaselineReadings ==
    {<<PyInt(-90), PyInt(-92), PyInt(-91), PyInt(-89), PyInt(-90)>>,
     <<PyInt(-80), PyInt(-80), PyInt(-80), PyInt(-80), PyInt(-80)>>,
     <<PyInt(-85), PyNone, PyStr(<<"n", "/", "a">>), PyInt(-95), PyNone>>,
     <<PyNone, PyNone, PyNone, PyNone, PyNone>>}

\* The RSRP reported in the two ticks that vary in the evaluated half
EvalReadings ==
    {PyInt(-105), PyInt(-101), PyInt(-100), PyInt(-91), PyInt(-90), PyNone}

SteadyRsrp == PyInt(-90)

\* The row of a healthy tick in which the device reports the RSRP x
SignalRow(x, n) ==
    RenderRecord(n, KindPing("good"), PyStr(<<"e", "t", "h", "0">>), PubIp, ConnectionDict(1),
                 SimDict(1), NetworkDict(1), [rsrp |-> x], DeviceDict(1))

\* The log of ten ticks with the given baseline readings and the readings
\* e1, e2 among steady ones in the evaluated half
SignalLog(b, e1, e2) ==
    LET readings == b \o <<SteadyRsrp, e1, SteadyRsrp, e2, SteadyRsrp>>
    IN  [n \in 1..Len(readings) |-> SignalRow(readings[n], n)]

\* The Latency_ms texts of the ticks of a baseline half.  monitor.py prints
\* nothing for a failed probe; FX3110_Monitor.py prints str(int(float(ms))),
\* which is "0" for a sub-millisecond round trip
BaselineLatencies ==
    {<<IntToStr(20), IntToStr(22), IntToStr(21), IntToStr(19), IntToStr(20)>>,
     <<IntToStr(0), IntToStr(0), IntToStr(0), IntToStr(0), IntToStr(100)>>,
     <<IntToStr(0), IntToStr(0), IntToStr(0), IntToStr(0), IntToStr(0)>>,
     <<IntToStr(30), <<>>, <<>>, IntToStr(10), <<>>>>,
     <<<<>>, <<>>, <<>>, <<>>, <<>>>>}

\* The Latency_ms texts of the two ticks that vary in the evaluated half
EvalLatencies ==
    {<<>>, IntToStr(0), IntToStr(60), IntToStr(70), IntToStr(71), IntToStr(499),
     IntToStr(500)}

SteadyLatency == IntToStr(20)

\* The row of a tick with a steady signal whose Latency_ms column reads x
LatencyRow(x, n) == [SignalRow(SteadyRsrp, n) EXCEPT !.Latency_ms = x]

\* The log of ten ticks with the given baseline latencies and the latencies
\* e1, e2 among steady ones in the evaluated half
LatencyLog(b, e1, e2) ==
    LET texts == b \o <<SteadyLatency, e1, SteadyLatency, e2, SteadyLatency>>
    IN  [n \in 1..Len(texts) |-> LatencyRow(texts[n], n)]

SignalInit ==
    /\ log_file \in {SignalLog(b, e1, e2) : b \in BaselineReadings,
                                            e1 \in EvalReadings, e2 \in EvalReadings}
                    \cup {LatencyLog(b, e1, e2) : b \in BaselineLatencies,
                                                 e1 \in EvalLatencies, e2 \in EvalLatencies}
    /\ bursts = 0
    /\ cache = <<>>
    /\ response = NoResponse

\* GET /api/changes
DetectChanges ==
    /\ response' = [op |-> "detect_changes", changes |-> detect_changes(cache)]
    /\ UNCHANGED <<log_file, bursts, cache>>
    /\ UNCHANGED not_an

\* The rsrp_threshold values a client passes: the default and a wider one
RsrpThresholds == {rsrp_threshold, 20}

\* LogParser.detect_anomalies() with its default thresholds
DetectAnomalies ==
    /\ response' = [op |-> "detect_anomalies", rsrp_threshold |-> rsrp_threshold,
                    anomalies |-> detect_anomalies(cache, rsrp_threshold, latency_threshold)]
    /\ UNCHANGED <<log_file, bursts, cache>>
    /\ UNCHANGED not_an

\* GET /api/anomalies?rsrp_threshold=rt
get_anomalies ==
    /\ \E rt \in RsrpThresholds :
        response' = [op |-> "detect_anomalies", rsrp_threshold |-> rt,
                     anomalies |-> detect_anomalies(cache, rt, latency_threshold)]
    /\ UNCHANGED <<log_file, bursts, cache>>
    /\ UNCHANGED not_an

----------------------------------------------------------------------------
(* WAN inference: TeltonikaCollector.get_connection_status in
   src/collectors/teltonika.py, with no collector script (_cached_data is
   None).  The `mwan3 status` text is kept as what the two regular
   expressions find in it, in text order: the "<iface> (<n>%)" policy
   members and the "interface <iface> is <status>" lines. *)

\* t in s, for texts
Contains(s, t) == \E i \in 1..(Len(s) - Len(t) + 1) : SubSeq(s, i, i + Len(t) - 1) = t

wan == <<"w", "a", "n">>
mob1s1a1 == <<"m", "o", "b", "1", "s", "1", "a", "1">>
mob1s2a1 == <<"m", "o", "b", "1", "s", "2", "a", "1">>
wwan0 == <<"w", "w", "a", "n", "0">>
eth1 == <<"e", "t", "h", "1">>
online == <<"o", "n", "l", "i", "n", "e">>
offline == <<"o", "f", "f", "l", "i", "n", "e">>
Connected == <<"C", "o", "n", "n", "e", "c", "t", "e", "d">>
Disconnected == <<"D", "i", "s", "c", "o", "n", "n", "e", "c", "t", "e", "d">>
Cellular == <<"C", "e", "l", "l", "u", "l", "a", "r">>
Ethernet == <<"E", "t", "h", "e", "r", "n", "e", "t">>
Unknown == <<"U", "n", "k", "n", "o", "w", "n">>
WanAddr == <<"1", "0", ".", "0", ".", "0", ".", "2">>
CellAddr == <<"1", "0", ".", "6", "4", ".", "0", ".", "7">>

Member(iface, percent) == [iface |-> iface, percent |-> percent]
Line(iface, status) == [iface |-> iface, status |-> status]

\* The policy members a report can list
PolicyLists ==
    {<<>>,
     <<Member(wan, 100), Member(mob1s1a1, 0)>>,
     <<Member(mob1s1a1, 100), Member(wan, 0)>>,
     <<Member(wan, 50), Member(mob1s1a1, 50)>>,
     <<Member(wan, 100), Member(mob1s1a1, 100)>>,
     <<Member(mob1s2a1, 100), Member(wan, 100)>>,
     <<Member(eth1, 100), Member(wwan0, 0)>>,
     <<Member(wwan0, 100), Member(wan, 0)>>}

\* The interface status lines a report can have
StatusLists ==
    {<<>>,
     <<Line(wan, online), Line(mob1s1a1, online)>>,
     <<Line(wan, offline), Line(mob1s1a1, online)>>,
     <<Line(wan, offline), Line(mob1s2a1, online)>>,
     <<Line(wan, offline), Line(wwan0, online)>>,
     <<Line(wan, offline), Line(mob1s1a1, offline)>>}

\* What `mwan3 status` gives: no text (the command failed, or mwan3 printed
\* nothing), or a report
NoReport == [text |-> FALSE]
MwanReports ==
    {NoReport} \cup
    {[text |-> TRUE, policy |-> p, status |-> l] :
        p \in PolicyLists, l \in StatusLists \ {<<>>}}

\* What `ubus call network.interface.<x> status` gives: the command fails,
\* the reply is not JSON, or a status object
QueryFailed == [kind |-> "failed"]
QueryMalformed == [kind |-> "malformed"]
QueryData(up, addrs) == [kind |-> "data", up |-> up, addrs |-> addrs]
WanQueries == {QueryFailed, QueryMalformed, QueryData(TRUE, <<WanAddr>>),
               QueryData(FALSE, <<>>)}
CellQueries == {QueryFailed, QueryMalformed, QueryData(TRUE, <<CellAddr>>),
                QueryData(FALSE, <<>>), QueryData(FALSE, <<CellAddr>>)}

CellIfaces == {mob1s1a1, wwan0}

\* Step 1: the first policy member at 100%, if any (the loop breaks there)
FirstAt100(policy) ==
    LET at100 == {i \in 1..Len(policy) : policy[i].percent = 100}
    IN  IF at100 = {} THEN <<>>
        ELSE <<policy[CHOOSE i \in at100 : \A j \in at100 : i <= j].iface>>

\* iface_status.get(name): the lowered status of the last line of an interface
StatusOf(lines, name) ==
    LET of == {i \in 1..Len(lines) : lines[i].iface = name}
    IN  IF of = {} THEN <<>>
        ELSE Lower(lines[CHOOSE i \in of : \A j \in of : j <= i].status)

IsOnline(st) == st \in {online, <<"u", "p">>}

\* The for-else fallback: wan first, then the two SIM interfaces
FirstOnline(lines) ==
    IF IsOnline(StatusOf(lines, wan)) THEN <<wan>>
    ELSE IF IsOnline(StatusOf(lines, mob1s1a1)) THEN <<mob1s1a1>>
    ELSE IF IsOnline(StatusOf(lines, mob1s2a1)) THEN <<mob1s2a1>>
    ELSE <<>>

\* "Determine source based on device name"
ClassifySource(wan_device) ==
    IF Contains(wan_device, <<"m", "o", "b", "1", "s">>) THEN Cellular
    ELSE IF Contains(Lower(wan_device), <<"e", "t", "h">>)
            \/ Contains(Lower(wan_device), <<"l", "a", "n">>) THEN Ethernet
    ELSE IF Contains(Lower(wan_device), wan) THEN Ethernet
    ELSE Unknown

\* The interface chosen from the mwan3 text, <<>> if none; step names which
\* step chose it
FromMwan(mwan) ==
    IF ~mwan.text THEN [device |-> <<>>, step |-> "none"]
    ELSE IF FirstAt100(mwan.policy) # <<>>
         THEN [device |-> FirstAt100(mwan.policy), step |-> "policy"]
    ELSE IF FirstOnline(mwan.status) # <<>>
         THEN [device |-> FirstOnline(mwan.status), step |-> "status"]
    ELSE [device |-> <<>>, step |-> "none"]

\* What `ip route get 8.8.8.8 | grep -o 'dev [^ ]*'` gives: the command fails
\* (grep matched nothing, or ssh failed), or the device of the route
RouteFailed == [kind |-> "failed"]
RouteDev(dev) == [kind |-> "text", dev |-> dev]
RouteAnswers == {RouteFailed, RouteDev(mob1s1a1), RouteDev(wwan0), RouteDev(eth1)}

\* What `ubus call network.interface.wan status` gives the except handler,
\* which also reads the "device" of the reply
FallbackQuery(up, device) ==
    [kind |-> "data", up |-> up, addrs |-> <<WanAddr>>, device |-> device]
FallbackWanQueries ==
    {QueryFailed, QueryMalformed, FallbackQuery(TRUE, eth1), FallbackQuery(TRUE, wwan0),
     FallbackQuery(TRUE, mob1s1a1), FallbackQuery(FALSE, <<>>)}

\* self._cached_data when get_connection_status is called: None, or the JSON
\* array a collector script printed (json.loads accepts it; .get raises on it)
CachedNone == "None"
CachedList == "list"

\* The handler of the outer `except Exception` of get_connection_status
connection_fallback(in) ==
    IF in.wan_q.kind # "data"
    THEN [raised |-> FALSE, wan_device |-> <<>>, step |-> "fallback",
          route_inspected |-> FALSE,
          wan_status |-> <<>>, wan_source |-> <<>>, device_ipv4 |-> <<>>]
    ELSE LET wan_device == in.wan_q.device
             by_name == Contains(wan_device, <<"m", "o", "b", "1", "s">>)
             inspected == wan_device # <<>> /\ ~by_name
             by_route == /\ in.route.kind = "text"
                         /\ Contains(<<"d", "e", "v", " ">> \o in.route.dev,
                                     <<"m", "o", "b", "1", "s">>)
         IN  [raised      |-> FALSE,
              wan_device  |-> wan_device,
              step        |-> "fallback",
              route_inspected |-> inspected,
              wan_status  |-> IF in.wan_q.up THEN Connected ELSE Disconnected,
              wan_source  |-> IF wan_device = <<>> THEN <<>>
                              ELSE IF by_name \/ by_route THEN Cellular
                              ELSE Ethernet,
              device_ipv4 |-> IF in.wan_q.addrs # <<>> THEN in.wan_q.addrs[1] ELSE <<>>]

\* The body of the outer try raises only when self._cached_data is not a dict
BodyRaises(in) == "cached_data" \in DOMAIN in /\ in.cached_data = CachedList

\* TeltonikaCollector.get_connection_status
get_connection_status(in) ==
    IF BodyRaises(in) THEN connection_fallback(in) ELSE
    LET chosen == FromMwan(in.mwan)
        wan_up0 == chosen.device # <<>>
        wan_device == IF wan_up0 THEN chosen.device[1] ELSE <<>>
        wan_source0 == IF wan_up0 THEN ClassifySource(wan_device) ELSE <<>>
        ipv4_0 == IF in.wan_q.kind = "data" /\ in.wan_q.addrs # <<>>
                  THEN in.wan_q.addrs[1] ELSE <<>>
        cell_used == ~wan_up0 /\ in.cell_q.kind = "data"
                     /\ (in.cell_q.up \/ in.cell_q.addrs # <<>>)
        wan_up == wan_up0 \/ cell_used
    IN  [raised      |-> FALSE,
         wan_device  |-> wan_device,
         step        |-> IF cell_used THEN "cell" ELSE chosen.step,
         route_inspected |-> FALSE,
         wan_status  |-> IF wan_up THEN Connected ELSE Disconnected,
         wan_source  |-> IF cell_used THEN Cellular ELSE wan_source0,
         device_ipv4 |-> IF cell_used /\ in.cell_q.addrs # <<>> THEN in.cell_q.addrs[1]
                         ELSE ipv4_0]

NoStatus == [raised |-> FALSE, step |-> "pending"]

TelInit ==
    /\ tel_in \in [cell_iface : CellIfaces, mwan : MwanReports, wan_q : WanQueries,
                   cell_q : CellQueries, cached_data : {CachedNone},
                   route : {RouteFailed}]
               \cup [cell_iface : CellIfaces, mwan : {NoReport}, wan_q : FallbackWanQueries,
                     cell_q : {QueryFailed}, cached_data : {CachedList},
                     route : RouteAnswers]
    /\ tel_out = NoStatus

TelIdle ==
    /\ tel_in = [cell_iface |-> mob1s1a1, mwan |-> NoReport, wan_q |-> QueryFailed,
                 cell_q |-> QueryFailed, cached_data |-> CachedNone,
                 route |-> RouteFailed]
    /\ tel_out = NoStatus

\* One call of get_connection_status
GetConnectionStatus ==
    /\ tel_out = NoStatus
    /\ tel_out' = get_connection_status(tel_in)
    /\ UNCHANGED tel_in
    /\ UNCHANGED not_tel

----------------------------------------------------------------------------
(* The FX4200 polling cycle: refresh_data and the five accessors of
   InseegoFX4200Collector *)

TECH_CODES ==
    (0 :> PyStr(<<"N", "o", " ", "S", "e", "r", "v", "i", "c", "e">>)) @@ (2 :> PyStr(<<"C", "D", "M", "A">>)) @@ (3 :> PyStr(<<"G", "S", "M", "/", "G", "P", "R", "S">>))
    @@ (4 :> PyStr(<<"H", "D", "R">>)) @@ (5 :> PyStr(<<"W", "C", "D", "M", "A">>)) @@ (6 :> PyStr(<<"G", "P", "S">>))
    @@ (8 :> PyStr(<<"W", "C", "D", "M", "A", "/", "G", "S", "M">>)) @@ (9 :> PyStr(<<"L", "T", "E">>)) @@ (11 :> PyStr(<<"L", "T", "E">>))
    @@ (12 :> PyStr(<<"H", "P", "D", "A">>)) @@ (17 :> PyStr(<<"5", "G", " ", "N", "S", "A">>)) @@ (18 :> PyStr(<<"5", "G", " ", "S", "A">>))

SIM_STATUS_CODES ==
    (0 :> PyStr(Unknown)) @@ (1 :> PyStr(<<"N", "o", "t", " ", "I", "n", "s", "e", "r", "t", "e", "d">>)) @@ (2 :> PyStr(<<"I", "n", "i", "t", "i", "a", "l", "i", "z", "i", "n", "g">>))
    @@ (3 :> PyStr(<<"P", "I", "N", " ", "R", "e", "q", "u", "i", "r", "e", "d">>)) @@ (4 :> PyStr(<<"P", "U", "K", " ", "R", "e", "q", "u", "i", "r", "e", "d">>)) @@ (5 :> PyStr(<<"C", "h", "e", "c", "k", " ", "F", "a", "i", "l", "u", "r", "e">>))
    @@ (6 :> PyStr(<<"I", "l", "l", "e", "g", "a", "l">>)) @@ (7 :> PyStr(<<"R", "e", "a", "d", "y">>))

WAN_TYPE_CODES ==
    (1 :> PyStr(<<"W", "i", "F", "i">>)) @@ (2 :> PyStr(<<"U", "S", "B">>)) @@ (3 :> PyStr(Cellular))
    @@ (4 :> PyStr(Ethernet))

\* table.get(code, default) for a code read from a reply
CodeGet(table, code, default) ==
    IF code.t = "int" /\ code.i \in DOMAIN table THEN table[code.i] ELSE default

\* The keys of the bundle, in the order refresh_data fetches them
BundleKeys == <<"cell_stats", "cell_5g_stats", "hw_info", "model_name", "sys_version", "ecgi",
                "wan_stats", "conn_state", "sim_status", "subscriber", "active_sim",
                "sim_slots", "wan_iface">>

\* What the device answers for a key: reading 1 is an LTE cell, reading 2 a
\* 5G NSA cell on another SIM
DeviceReply(key, r) ==
    CASE key = "cell_stats" ->
            IF r = 1
            THEN [tech |-> PyInt(9), rsrp |-> PyInt(-91), rsrq |-> PyInt(-11), snr |-> PyInt(0),
                  rssi |-> PyInt(-60), oper_name |-> PyStr(<<" ", "V", "Z", "W", " ">>), pci |-> PyInt(42)]
            ELSE [tech |-> PyInt(17), rsrp |-> PyInt(-105), rsrq |-> PyInt(-14),
                  snr |-> PyInt(7), rssi |-> PyInt(-70), oper_name |-> PyStr(<<"A", "T", "T">>),
                  pci |-> PyInt(7)]
      [] key = "cell_5g_stats" ->
            IF r = 1 THEN EmptyDict
            ELSE [rsrp |-> PyInt(-100), rsrq |-> PyInt(-12), snr |-> PyInt(9),
                  endc |-> PyInt(1), earfcn_5g_dl |-> PyInt(5)]
      [] key = "hw_info" ->
            [model |-> PyStr(<<"F", "X", "4", "2", "0", "0">>), manufacturer |-> PyStr(<<"I", "n", "s", "e", "e", "g", "o">>),
             imei |-> PyStr(<<"3", "5">>), fid |-> PyStr(<<"S", "1">>)]
      [] key = "model_name" -> [model |-> PyStr(<<"F", "X", "4", "2", "0", "0">>)]
      [] key = "sys_version" ->
            IF r = 1 THEN [modem_fw_version |-> PyStr(<<"1", ".", "0">>), webui_version |-> PyStr(<<"2", ".", "0">>)]
            ELSE [webui_version |-> PyStr(<<"2", ".", "0">>)]
      [] key = "ecgi" -> [ecgi |-> PyStr(<<"3", "1", "1", "4", "8", "0">>)]
      [] key = "wan_stats" ->
            [ipv4_address |-> PyStr(IF r = 1 THEN WanAddr ELSE CellAddr)]
      [] key = "conn_state" ->
            [ipv4_cs |-> PyInt(IF r = 1 THEN 1 ELSE 0), ipv6_cs |-> PyInt(0)]
      [] key = "sim_status" -> [status |-> PyInt(7)]
      [] key = "subscriber" -> [iccid |-> PyStr(IF r = 1 THEN <<"8", "9", "1">> ELSE <<"8", "9", "2">>)]
      [] key = "active_sim" -> [imsi |-> PyStr(<<"3", "1", "0">>)]
      [] key = "sim_slots" -> [slots_info |-> PyInt(r)]
      [] key = "wan_iface" -> [active_wan_type |-> PyInt(IF r = 1 THEN 4 ELSE 3)]

\* self._cached.get(key, {})
Bundle(c, key) == DictGet(c, key, EmptyDict)

\* str(v) of a value read from a reply
PyStrOf(v) == PyStr(Format(v))

fx_get_signal_metrics(c) ==
    LET stats == Bundle(c, "cell_stats")
        stats_5g == Bundle(c, "cell_5g_stats")
        tech_code == DictGet(stats, "tech", PyInt(0))
        is_5g == tech_code.t = "int" /\ tech_code.i \in {17, 18}
        src == IF is_5g /\ stats_5g # EmptyDict THEN stats_5g ELSE stats
    IN  [rsrp |-> DictGet(src, "rsrp", PyNone),
         rsrq |-> DictGet(src, "rsrq", PyNone),
         snr  |-> DictGet(src, "snr", PyNone),
         rssi |-> PyOr(DictGet(src, "rssi", PyNone), DictGet(stats, "rssi", PyNone))]

fx_get_network_info(c) ==
    LET stats == Bundle(c, "cell_stats")
        stats_5g == Bundle(c, "cell_5g_stats")
        ecgi_data == Bundle(c, "ecgi")
        tech_code == DictGet(stats, "tech", PyInt(0))
        is_5g == tech_code.t = "int" /\ tech_code.i \in {17, 18}
        endc == Truthy(DictGet(stats_5g, "endc", PyInt(0)))
        nr_earfcn == DictGet(stats_5g, "earfcn_5g_dl", PyNone)
        band0 == IF endc THEN <<"E", "N", "D", "C">> ELSE <<>>
        band1 == IF Truthy(nr_earfcn)
                 THEN (IF band0 # <<>> THEN band0 \o <<"+", "N", "R", "-", "E", "A", "R", "F", "C", "N", ":">> ELSE <<"N", "R", "-", "E", "A", "R", "F", "C", "N", ":">>)
                      \o Format(nr_earfcn)
                 ELSE band0
    IN  [carrier    |-> PyStr(Strip(PyOr(DictGet(stats, "oper_name", PyNone), EmptyStr).s)),
         technology |-> CodeGet(TECH_CODES, tech_code,
                                PyStr(<<"U", "n", "k", "n", "o", "w", "n", "(">> \o Format(tech_code) \o <<")">>)),
         band       |-> PyStr(IF is_5g /\ stats_5g # EmptyDict THEN band1 ELSE <<>>),
         bandwidth  |-> EmptyStr,
         pci        |-> PyStrOf(DictGet(stats, "pci", EmptyStr)),
         cell_id    |-> PyStrOf(PyOr(DictGet(stats, "cell_id", EmptyStr),
                                     DictGet(ecgi_data, "ecgi", EmptyStr)))]

fx_get_connection_status(c) ==
    LET conn == Bundle(c, "conn_state")
        wan_stats == Bundle(c, "wan_stats")
        wan_iface == Bundle(c, "wan_iface")
        is_connected == \/ PyEq(DictGet(conn, "ipv4_cs", PyInt(0)), PyInt(1))
                        \/ PyEq(DictGet(conn, "ipv6_cs", PyInt(0)), PyInt(1))
    IN  [wan_status  |-> PyStr(IF is_connected THEN Connected ELSE Disconnected),
         wan_source  |-> CodeGet(WAN_TYPE_CODES, DictGet(wan_iface, "active_wan_type", PyInt(0)),
                                 PyStr(Unknown)),
         device_ipv4 |-> DictGet(wan_stats, "ipv4_address", EmptyStr)]

fx_get_sim_info(c) ==
    LET subscriber == Bundle(c, "subscriber")
        sim_status == Bundle(c, "sim_status")
        status_code == DictGet(sim_status, "status", PyInt(0))
    IN  [apn        |-> EmptyStr,
         iccid      |-> DictGet(subscriber, "iccid", EmptyStr),
         sim_status |-> CodeGet(SIM_STATUS_CODES, status_code,
                                PyStr(<<"C", "o", "d", "e", "(">> \o Format(status_code) \o <<")">>))]

fx_get_device_info(c) ==
    LET hw == Bundle(c, "hw_info")
        model_data == Bundle(c, "model_name")
        ver == Bundle(c, "sys_version")
        fw == DictGet(ver, "modem_fw_version", EmptyStr)
    IN  [model        |-> DictGet(model_data, "model",
                                  DictGet(hw, "model", PyStr(<<"F", "X", "4", "2", "0", "0">>))),
         manufacturer |-> DictGet(hw, "manufacturer", PyStr(<<"I", "n", "s", "e", "e", "g", "o">>)),
         firmware     |-> IF Truthy(fw) THEN fw ELSE DictGet(ver, "webui_version", EmptyStr),
         imei         |-> DictGet(hw, "imei", EmptyStr),
         serial       |-> DictGet(hw, "fid", EmptyStr)]

\* What accessor a returns on the bundle c
AccessorValue(a, c) ==
    CASE a = "get_signal_metrics"    -> fx_get_signal_metrics(c)
      [] a = "get_network_info"      -> fx_get_network_info(c)
      [] a = "get_connection_status" -> fx_get_connection_status(c)
      [] a = "get_sim_info"          -> fx_get_sim_info(c)
      [] a = "get_device_info"       -> fx_get_device_info(c)

\* How the device treats the authenticate requests of a cycle
AuthBehaviours == {<<"t1", "t1", "t1">>, <<"fail", "fail", "fail">>}

\* How the device answers the requests of one call of the batch
ScriptOk == <<"data", "-", "-">>
FaultScripts == {<<"exc", "-", "-">>, <<"code0", "-", "-">>, <<"error", "data", "-">>}

\* The calls of the batch a fault can hit: the first, one in the middle, the last
FaultCalls == {1, 8, 13}

\* The faults of a cycle: none, or one call answered by a fault script
NoFault == [at |-> 0, script |-> ScriptOk]
Faults == {NoFault} \cup {[at |-> k, script |-> f] : k \in FaultCalls, f \in FaultScripts}

\* The calls k..13 of the batch, from the state st of the collector and of
\* the local dict `data`
RECURSIVE Batch(_, _, _, _, _, _)
Batch(k, st, now, as, fault, r) ==
    IF k > Len(BundleKeys) \/ st.raised THEN st
    ELSE CHOOSE out \in
            {Batch(k + 1, next, now, as, fault, r) :
                next \in
                    {[token   |-> call.m.token,
                      created |-> call.m.created,
                      id      |-> call.m.id,
                      sent    |-> st.sent \o call.m.sent,
                      received |-> st.received \o call.m.received,
                      auth_replies |-> st.auth_replies \o call.m.auth_replies,
                      raised  |-> call.result = "raised",
                      data    |-> IF call.result = "raised" THEN st.data
                                  ELSE (BundleKeys[k] :>
                                            IF call.result = "data"
                                            THEN DeviceReply(BundleKeys[k], r)
                                            ELSE EmptyDict) @@ st.data] :
                        call \in {_ubus_call(Machine(st.token, st.created, st.id), now, as,
                                             IF fault.at = k THEN fault.script
                                             ELSE ScriptOk)}}} : TRUE

\* A variant that stores what the batch fetched before a call raised
refresh_data_partial(tok, created, id, c, now, as, fault, r) ==
    CHOOSE after \in
        {[token    |-> st.token,
          created  |-> st.created,
          id       |-> st.id,
          sent     |-> st.sent,
          received |-> st.received,
          auth_replies |-> st.auth_replies,
          cached   |-> st.data @@ c,
          returned |-> ~st.raised] :
            st \in {Batch(1, [token |-> m.token, created |-> m.created, id |-> m.id,
                              sent |-> m.sent, received |-> m.received,
                              auth_replies |-> m.auth_replies,
                              raised |-> m.raised, data |-> EmptyDict],
                          now, as, fault, r) :
                        m \in {_ensure_session(Machine(tok, created, id), now, as)}}} : TRUE

\* refresh_data: the collector after it, with what it returned
refresh_data(tok, created, id, c, now, as, fault, r) ==
    CHOOSE after \in
        {[token    |-> st.token,
          created  |-> st.created,
          id       |-> st.id,
          sent     |-> st.sent,
          received |-> st.received,
          auth_replies |-> st.auth_replies,
          cached   |-> IF st.raised THEN c ELSE st.data,
          returned |-> ~st.raised] :
            st \in {Batch(1, [token |-> m.token, created |-> m.created, id |-> m.id,
                              sent |-> m.sent, received |-> m.received,
                              auth_replies |-> m.auth_replies,
                              raised |-> m.raised, data |-> EmptyDict],
                          now, as, fault, r) :
                        m \in {_ensure_session(Machine(tok, created, id), now, as)}}} : TRUE

\* A variant that fetches again when the bundle is empty
AccessorRequests_refetch(a, c) == IF c = EmptyDict THEN 1 ELSE 0

\* The RPC requests an accessor sends: it only reads self._cached
AccessorRequests(a, c) == 0

NoValue == [accessor |-> "none"]

FxInit ==
    /\ cached = EmptyDict
    /\ fx_cycles = 0
    /\ fx_refreshed = "none"
    /\ fx_batch_requests = 0
    /\ fx_cycle_requests = 0
    /\ fx_reads = 0
    /\ fx_value = NoValue

FxIdle == FxInit

\* A polling cycle begins: main calls cellular.refresh_data()
RefreshData ==
    /\ fx_cycles < MaxCycles
    /\ \E as \in AuthBehaviours, fault \in Faults, r \in Readings :
        \E after \in {refresh_data(session_token, session_created, rpc_id, cached, uclock,
                                   as, fault, r)} :
            /\ session_token' = after.token
            /\ session_created' = after.created
            /\ rpc_id' = after.id
            /\ cached' = after.cached
            /\ fx_refreshed' = IF after.returned THEN "True" ELSE "False"
            /\ sent' = after.sent
            /\ received' = after.received
            /\ auth_replies' = after.auth_replies
            /\ fx_batch_requests' = after.id - rpc_id
            /\ fx_cycle_requests' = after.id - rpc_id
    /\ fx_cycles' = fx_cycles + 1
    /\ fx_reads' = 0
    /\ fx_value' = NoValue
    /\ UNCHANGED <<uclock, discards, call_result, calls>>
    /\ UNCHANGED not_fx

\* main, or anything else, calls one of the five accessors in the cycle
CallAccessor ==
    /\ fx_refreshed # "none"
    /\ fx_reads < MaxReads
    /\ \E a \in Accessors :
        /\ fx_value' = [accessor |-> a, value |-> AccessorValue(a, cached)]
        /\ rpc_id' = rpc_id + AccessorRequests(a, cached)
        /\ fx_cycle_requests' = fx_cycle_requests + AccessorRequests(a, cached)
    /\ fx_reads' = fx_reads + 1
    /\ UNCHANGED <<cached, fx_cycles, fx_refreshed, fx_batch_requests>>
    /\ UNCHANGED <<session_token, session_created, uclock, sent, received, discards,
                   auth_replies, call_result, calls>>
    /\ UNCHANGED not_fx

----------------------------------------------------------------------------
(* Startup: load_config, build_cellular_collector and the first iterations
   of the loop, by device type and by what the configuration holds *)

\* device.ssh.host and device.password as load_config leaves them: "" when
\* neither config.yaml nor the environment sets them
SshHost == <<"1", "0", ".", "0", ".", "0", ".", "1">>
Secret == <<"s", "e", "c", "r", "e", "t">>
Hosts == {<<>>, SshHost}
Passwords == {<<>>, Secret}

Configs == [device_type : DeviceTypes, ssh_host : Hosts, password : Passwords]

NoCollector == [class |-> "none"]

\* build_cellular_collector: the constructors store their arguments; neither
\* they nor the factory look at the host or at the password
build_cellular_collector(cfg) ==
    IF cfg.device_type = "fx4200"
    THEN [raised |-> FALSE,
          collector |-> [class |-> "InseegoFX4200Collector", password |-> cfg.password,
                         token |-> NoToken, created |-> 0, id |-> 0,
                         cached |-> EmptyDict]]
    ELSE IF cfg.device_type = "rutm50"
    THEN [raised |-> FALSE,
          collector |-> [class |-> "TeltonikaCollector", host |-> cfg.ssh_host]]
    ELSE [raised |-> FALSE, collector |-> [class |-> "InseegoCollector"]]

\* What the router's commands give a TeltonikaCollector: _ssh_exec raises
\* "SSH host not configured" before it connects when self.host is empty, and
\* every caller turns that into no answer
SshAnswers(host, in) ==
    IF host = <<>>
    THEN [in EXCEPT !.mwan = NoReport, !.wan_q = QueryFailed, !.cell_q = QueryFailed]
    ELSE in

\* What the router answers in a tick of the startup runs
StartupAnswers ==
    [cell_iface : {mob1s1a1},
     mwan : {NoReport, [text |-> TRUE, policy |-> <<>>, status |-> <<Line(wan, online)>>]},
     wan_q : {QueryFailed},
     cell_q : {QueryFailed, QueryData(TRUE, <<CellAddr>>)}]

\* The dict get_connection_status returns, as Python values
TelConnection(in) ==
    LET out == get_connection_status(in)
    IN  [wan_status  |-> PyStr(out.wan_status),
         wan_source  |-> PyStr(out.wan_source),
         device_ipv4 |-> PyStr(out.device_ipv4)]

\* What gsmctl answers: nothing, or the reading
GsmctlAnswers == {Raised} \cup {Returned(SignalDict(r)) : r \in Readings}

\* _ssh_exec: the command's answer, or the RuntimeError of a missing host
_ssh_exec(host, answer) == IF host = <<>> THEN Raised ELSE answer

\* TeltonikaCollector.get_signal_metrics: None in every field when no
\* command answers
tel_get_signal_metrics(host, answer) ==
    LET out == _ssh_exec(host, answer)
    IN  IF out.raised
        THEN [rsrp |-> PyNone, rsrq |-> PyNone, snr |-> PyNone, rssi |-> PyNone]
        ELSE out.value

\* How the FX4200 answers authenticate: a device protected by a password
\* rejects the empty one
StartupAuth(password) ==
    IF password = <<>> THEN {<<"fail", "fail", "fail">>} ELSE AuthBehaviours

NoStartupRecord == [WanStatus |-> <<>>, WanSource |-> <<>>, RSRP |-> <<>>]

\* The columns of the printed record the startup runs keep
StartupRecord(connection, signal) ==
    [WanStatus |-> Format(DictGet(connection, "wan_status", EmptyStr)),
     WanSource |-> Format(DictGet(connection, "wan_source", EmptyStr)),
     RSRP      |-> Format(PyOr(DictGet(signal, "rsrp", PyNone), EmptyStr))]

StInit ==
    /\ config \in Configs
    /\ st_pc = "start"
    /\ cellular = NoCollector
    /\ st_ticks = 0
    /\ st_record = NoStartupRecord

StIdle ==
    /\ config = [device_type |-> "fx4200", ssh_host |-> <<>>, password |-> Secret]
    /\ st_pc = "start"
    /\ cellular = NoCollector
    /\ st_ticks = 0
    /\ st_record = NoStartupRecord

\* main: cellular = build_cellular_collector(config), then the header
BuildCollector ==
    /\ st_pc = "start"
    /\ LET built == build_cellular_collector(config)
       IN  /\ st_pc' = IF built.raised THEN "failed" ELSE "running"
           /\ cellular' = IF built.raised THEN NoCollector ELSE built.collector
    /\ UNCHANGED <<config, st_ticks, st_record>>
    /\ UNCHANGED not_st

\* One iteration of the loop with the collector that was built
StartupTick ==
    /\ st_pc = "running"
    /\ st_ticks < MaxTicks
    /\ st_ticks' = st_ticks + 1
    /\ CASE cellular.class = "InseegoCollector" ->
              \* cellular.refresh_data raises AttributeError out of main
              /\ st_pc' = "crashed"
              /\ UNCHANGED <<cellular, st_record>>
         [] cellular.class = "TeltonikaCollector" ->
              \E in \in StartupAnswers, g \in GsmctlAnswers :
                  /\ st_record' = StartupRecord(
                                      TelConnection(SshAnswers(cellular.host, in)),
                                      tel_get_signal_metrics(cellular.host, g))
                  /\ UNCHANGED <<st_pc, cellular>>
         [] cellular.class = "InseegoFX4200Collector" ->
              \E as \in StartupAuth(cellular.password), r \in Readings :
                  \E after \in {refresh_data(cellular.token, cellular.created, cellular.id,
                                             cellular.cached, st_ticks * loop_interval,
                                             as, NoFault, r)} :
                      /\ cellular' = [cellular EXCEPT !.token = after.token,
                                                      !.created = after.created,
                                                      !.id = after.id,
                                                      !.cached = after.cached]
                      /\ st_record' = StartupRecord(
                                          fx_get_connection_status(after.cached),
                                          fx_get_signal_metrics(after.cached))
                      /\ UNCHANGED st_pc
    /\ UNCHANGED config
    /\ UNCHANGED not_st

----------------------------------------------------------------------------
(* get_connection_status of the three collector variants, on what the
   device of each can answer *)

\* What the FX3110 status page holds in an element: _extract_by_id gives the
\* text, or "" when the element is missing
PageStatus == {<<>>, Connected, Disconnected}
PageTechnology == {<<>>, Ethernet, <<"e", "t", "h", "e", "r", "n", "e", "t">>,
                   <<"L", "T", "E">>}

\* InseegoCollector.get_connection_status
ins_get_connection_status(page) ==
    [wan_status  |-> PyOr(PyStr(page.internetStatus), EmptyStr),
     wan_source  |-> IF Truthy(PyStr(page.technology))
                     THEN PyStr(IF Lower(page.technology) = Lower(Ethernet)
                                THEN Ethernet ELSE Cellular)
                     ELSE EmptyStr,
     device_ipv4 |-> PyOr(PyStr(page.address), EmptyStr)]

\* active_wan_type as sysinterface.wan reports it: every code of
\* WAN_TYPE_CODES, 0, and a code the table does not hold
WanTypeCodes == 0..5

\* The part of the FX4200 bundle get_connection_status reads
ConnBundles ==
    {[conn_state |-> [ipv4_cs |-> PyInt(a), ipv6_cs |-> PyInt(b)],
      wan_stats  |-> [ipv4_address |-> PyStr(WanAddr)],
      wan_iface  |-> w] :
         a \in {0, 1}, b \in {0, 1},
         w \in {EmptyDict} \cup {[active_wan_type |-> PyInt(t)] : t \in WanTypeCodes}}

\* The devices a collector can face
ConnInputs ==
    {[variant |-> "fx3110",
      page |-> [internetStatus |-> s, technology |-> t, address |-> WanAddr]] :
         s \in PageStatus, t \in PageTechnology}
    \cup {[variant |-> "fx4200", bundle |-> c] : c \in ConnBundles}
    \cup {[variant |-> "rutm50", answers |-> in] :
            in \in [cell_iface : {mob1s1a1}, mwan : MwanReports, wan_q : WanQueries,
                    cell_q : {QueryFailed, QueryData(TRUE, <<CellAddr>>)}]}

\* cellular.get_connection_status() of the collector build_cellular_collector made
ConnectionStatusOf(in) ==
    CASE in.variant = "fx3110" -> ins_get_connection_status(in.page)
      [] in.variant = "fx4200" -> fx_get_connection_status(in.bundle)
      [] in.variant = "rutm50" -> TelConnection(in.answers)

NoConnection == [returned |-> FALSE]

ConnInit ==
    /\ conn_in \in ConnInputs
    /\ conn_out = NoConnection

ConnIdle ==
    /\ conn_in = [variant |-> "fx4200", bundle |-> EmptyDict]
    /\ conn_out = NoConnection

\* One call of get_connection_status
CallConnectionStatus ==
    /\ conn_out = NoConnection
    /\ conn_out' = ConnectionStatusOf(conn_in)
    /\ UNCHANGED conn_in
    /\ UNCHANGED not_conn

----------------------------------------------------------------------------
(* GET /api/stats *)

\* The records get_stats asks get_recent for
StatsWindow == 100

\* HTTPException(status_code=404, detail="No data available")
NotFound == 404

\* min(values), max(values) of a non-empty list
MinOf(values) == CHOOSE v \in {values[i] : i \in 1..Len(values)} :
                    \A i \in 1..Len(values) : v <= values[i]
MaxOf(values) == CHOOSE v \in {values[i] : i \in 1..Len(values)} :
                    \A i \in 1..Len(values) : v >= values[i]

\* sum(values) / len(values) as the fraction it is
Ratio(values) == [num |-> SumRange(values, 1, Len(values)), den |-> Len(values)]

\* {"min": ..., "max": ..., "avg": ...} `if values else 0`
Aggregate(values) ==
    IF values = <<>> THEN [min |-> PyInt(0), max |-> PyInt(0), avg |-> PyInt(0)]
    ELSE [min |-> PyInt(MinOf(values)), max |-> PyInt(MaxOf(values)), avg |-> Ratio(values)]

\* get_stats on what get_recent(100) returned
get_stats(recent) ==
    IF recent = <<>> THEN [raised |-> TRUE, status_code |-> NotFound]
    ELSE LET latencies == ConcatRange([i \in 1..Len(recent) |->
                               IF Truthy(recent[i].latency_ms)
                               THEN <<recent[i].latency_ms.i>> ELSE <<>>], 1, Len(recent))
             successes == [i \in 1..Len(recent) |->
                               IF Truthy(recent[i].success) THEN 1 ELSE 0]
             rsrp_values == ConcatRange([i \in 1..Len(recent) |->
                               IF RsrpOf(recent[i]).ok THEN <<RsrpOf(recent[i]).v>>
                               ELSE <<>>], 1, Len(recent))
         IN  [raised        |-> FALSE,
              total_samples |-> Len(recent),
              success_rate  |-> [num |-> 100 * SumRange(successes, 1, Len(successes)),
                                 den |-> Len(successes)],
              latency       |-> Aggregate(latencies),
              rsrp          |-> Aggregate(rsrp_values)]

\* GET /api/stats: get_recent(100) reloads the log, get_stats summarises it
GetStats ==
    /\ \E r \in {reload_logs(log_file, MAX_CACHE_LINES)} :
        /\ cache' = r.cache
        /\ response' = IF r.raised THEN [op |-> "get_stats", raised |-> TRUE, status_code |-> 0]
                       ELSE [op |-> "get_stats"] @@ get_stats(LastN(r.cache, StatsWindow))
    /\ UNCHANGED <<log_file, bursts>>
    /\ UNCHANGED not_an

----------------------------------------------------------------------------
(* The buffer on a long log: reload_logs and GET /api/recent?count=N once the
   log has about MAX_CACHE_LINES rows *)

\* The header line main prints when it starts; in a log that outlives a
\* restart of the monitor it stands between the rows, and csv.DictReader
\* yields it as a row
HeaderLine ==
    [Timestamp       |-> <<"T", "i", "m", "e", "s", "t", "a", "m", "p">>,
     SourceIP        |-> <<"S", "o", "u", "r", "c", "e", "I", "P">>,
     ActiveInterface |-> <<"A", "c", "t", "i", "v", "e", "I", "n", "t", "e", "r", "f", "a", "c", "e">>,
     DestIP          |-> <<"D", "e", "s", "t", "I", "P">>,
     Success         |-> <<"S", "u", "c", "c", "e", "s", "s">>,
     Latency_ms      |-> <<"L", "a", "t", "e", "n", "c", "y", "_", "m", "s">>,
     PublicIP        |-> <<"P", "u", "b", "l", "i", "c", "I", "P">>,
     WanStatus       |-> <<"W", "a", "n", "S", "t", "a", "t", "u", "s">>,
     WanSource       |-> <<"W", "a", "n", "S", "o", "u", "r", "c", "e">>,
     SimStatus       |-> <<"S", "i", "m", "S", "t", "a", "t", "u", "s">>,
     Tech            |-> <<"T", "e", "c", "h">>,
     Band            |-> <<"B", "a", "n", "d">>,
     Bandwidth       |-> <<"B", "a", "n", "d", "w", "i", "d", "t", "h">>,
     DeviceIPv4      |-> <<"D", "e", "v", "i", "c", "e", "I", "P", "v", "4">>,
     Carrier         |-> <<"C", "a", "r", "r", "i", "e", "r">>,
     APN             |-> <<"A", "P", "N">>,
     ICCID           |-> <<"I", "C", "C", "I", "D">>,
     RSRP            |-> <<"R", "S", "R", "P">>,
     RSRQ            |-> <<"R", "S", "R", "Q">>,
     SNR             |-> <<"S", "N", "R">>,
     RSSI            |-> <<"R", "S", "S", "I">>,
     Model           |-> <<"M", "o", "d", "e", "l">>,
     Manufacturer    |-> <<"M", "a", "n", "u", "f", "a", "c", "t", "u", "r", "e", "r">>,
     Firmware        |-> <<"F", "i", "r", "m", "w", "a", "r", "e">>,
     IMEI            |-> <<"I", "M", "E", "I">>,
     Serial          |-> <<"S", "e", "r", "i", "a", "l">>]

\* Where the long log has the header line of a restart: nowhere, in its
\* first rows, or in its last rows
RestartAt == {0, 2, MAX_CACHE_LINES - 2}

\* A log one row short of the buffer's capacity
LongLog(at) ==
    [n \in 1..(MAX_CACHE_LINES - 1) |-> IF n = at THEN HeaderLine ELSE LogRow("good", n)]

BufInit ==
    /\ log_file \in {LongLog(at) : at \in RestartAt}
    /\ bursts = 0
    /\ cache = <<>>
    /\ response = NoResponse

\* The scheduler appends the row of one more tick, or is restarted and
\* prints its header line
AppendLate ==
    /\ bursts < MaxLate
    /\ \E row \in {HeaderLine, LogRow("good", Len(log_file) + 1)} :
        log_file' = Append(log_file, row)
    /\ bursts' = bursts + 1
    /\ response' = NoResponse
    /\ UNCHANGED cache
    /\ UNCHANGED not_an

\* The count values of GET /api/recent?count=N that are tried
RecentCounts == {0, 1, 100, MAX_CACHE_LINES, MAX_CACHE_LINES + 500}

\* LogParser.get_recent(count), after reload_logs: list(self.cache)[-count:]
get_recent(buffer, count) == LastN(buffer, count)

\* GET /api/recent?count=N: the count is capped, get_recent reloads the log
\* and returns the last entries
GetRecentCount ==
    /\ \E r \in {reload_logs(log_file, MAX_CACHE_LINES)} : \E count \in RecentCounts :
        LET capped == IF count > MAX_CACHE_LINES THEN MAX_CACHE_LINES ELSE count
        IN  /\ cache' = r.cache
            /\ response' = IF r.raised THEN [op |-> "get_recent", raised |-> TRUE]
                           ELSE [op |-> "get_recent", raised |-> FALSE, count |-> count,
                                 entries |-> get_recent(r.cache, capped)]
    /\ UNCHANGED <<log_file, bursts>>
    /\ UNCHANGED not_an

----------------------------------------------------------------------------
(* Polling cycles of TeltonikaCollector: refresh_data and the five accessors,
   counted in ssh sessions (each _ssh_exec runs one ssh process) *)

\* How the router answers during a cycle: every command answers and the wired
\* WAN carries the traffic; every command answers and the WAN is down; no
\* ssh connection succeeds
RouterStates == {"wan", "cell", "down"}

\* What running the collector script gives: a JSON object, another JSON value
\* (an array), text that is not JSON, or a failed command (the script is not
\* on the router, or ssh fails)
ScriptOutcomes(router) ==
    IF router = "down" THEN {"failed"} ELSE {"dict", "list", "notjson", "failed"}

\* The order in which main calls the accessors
AccessorOrder == <<"get_signal_metrics", "get_network_info", "get_connection_status",
                   "get_sim_info", "get_device_info">>

\* TeltonikaCollector.refresh_data: the sessions it opens and _cached_data after it
tel_refresh_data(script, outcome) ==
    IF ~script THEN [sessions |-> 0, cached_data |-> CachedNone, result |-> TRUE]
    ELSE IF outcome \in {"dict", "list"}
         THEN [sessions |-> 1, cached_data |-> outcome, result |-> TRUE]
    ELSE [sessions |-> 1, cached_data |-> CachedNone, result |-> FALSE]

\* _fetch_gsmctl_info: no command with cached data; else gsmctl -E, and
\* gsmctl --info when that gave nothing
FetchSessions(cached_data, router) ==
    IF cached_data # CachedNone THEN 0 ELSE IF router = "down" THEN 2 ELSE 1

\* The ssh sessions an accessor opens.  On cached data that is not a dict the
\* first _get_cached raises: the accessor ends there, except that
\* get_connection_status goes on in its except handler
SshSessions(a, cached_data, router) ==
    CASE a = "get_signal_metrics" ->
            \* gsmctl -q only when gsmctl -E gave no cache
            FetchSessions(cached_data, router)
                + (IF cached_data = CachedNone /\ router = "down" THEN 1 ELSE 0)
      [] a = "get_network_info" ->
            \* gsmctl -o, -t, -b, and _fetch_gsmctl_info when all three are empty
            IF cached_data # CachedNone THEN 0
            ELSE 3 + (IF router = "down" THEN FetchSessions(cached_data, router) ELSE 0)
      [] a = "get_connection_status" ->
            \* mwan3 status, ubus wan, and ubus cell_iface when the WAN is not up;
            \* in the except handler ubus wan, and the route when it names a device
            IF cached_data = "dict" THEN 0
            ELSE IF cached_data = CachedList THEN (IF router = "down" THEN 1 ELSE 2)
            ELSE IF router = "wan" THEN 2 ELSE 3
      [] a = "get_sim_info" ->
            \* gsmctl -L, one ubus call when the slot is unknown, uci get, gsmctl -J, -z
            IF cached_data # CachedNone THEN 0
            ELSE IF router = "down" THEN 5 ELSE 4
      [] a = "get_device_info" -> FetchSessions(cached_data, router)

TcInit ==
    /\ use_collector_script \in BOOLEAN
    /\ tel_cached_data = CachedNone
    /\ tel_router = "wan"
    /\ tel_pc = 0
    /\ tel_sessions = 0
    /\ tel_cycles = 0

TcIdle ==
    /\ use_collector_script = FALSE
    /\ tel_cached_data = CachedNone
    /\ tel_router = "wan"
    /\ tel_pc = 0
    /\ tel_sessions = 0
    /\ tel_cycles = 0

\* main starts a cycle: cellular.refresh_data()
TelRefreshData ==
    /\ tel_pc \in {0, Len(AccessorOrder) + 1}
    /\ tel_cycles < MaxCycles
    /\ \E router \in RouterStates : \E outcome \in ScriptOutcomes(router) :
        LET r == tel_refresh_data(use_collector_script, outcome)
        IN  /\ tel_router' = router
            /\ tel_cached_data' = r.cached_data
            /\ tel_sessions' = r.sessions
    /\ tel_pc' = 1
    /\ tel_cycles' = tel_cycles + 1
    /\ UNCHANGED use_collector_script
    /\ UNCHANGED not_tc

\* main calls the next accessor of the cycle
TelAccessor ==
    /\ tel_pc \in 1..Len(AccessorOrder)
    /\ tel_sessions' = tel_sessions
                         + SshSessions(AccessorOrder[tel_pc], tel_cached_data, tel_router)
    /\ tel_pc' = tel_pc + 1
    /\ UNCHANGED <<use_collector_script, tel_cached_data, tel_router, tel_cycles>>
    /\ UNCHANGED not_tc

----------------------------------------------------------------------------
(* Specifications *)

\* The polling scheduler
Init == MonInit /\ UbusIdle /\ RtIdle /\ AnIdle /\ TelIdle /\ FxIdle /\ StIdle /\ ConnIdle /\ TcIdle

Next == Tick \/ ClockSetBack

Spec == Init /\ [][Next]_vars

\* The session RPC client
InitUbus == MonIdle /\ UbusInit /\ RtIdle /\ AnIdle /\ TelIdle /\ FxIdle /\ StIdle /\ ConnIdle /\ TcIdle

NextUbus == UbusCall \/ UbusTimePasses

SpecUbus == InitUbus /\ [][NextUbus]_vars

\* The log format round trip
InitRoundTrip == MonIdle /\ UbusIdle /\ RtInit /\ AnIdle /\ TelIdle /\ FxIdle /\ StIdle /\ ConnIdle /\ TcIdle

NextRoundTrip == PrintLine \/ ParseLine

SpecRoundTrip == InitRoundTrip /\ [][NextRoundTrip]_vars

\* The log analyzer
InitAnalyzer == MonIdle /\ UbusIdle /\ RtIdle /\ AnInit /\ TelIdle /\ FxIdle /\ StIdle /\ ConnIdle /\ TcIdle

NextAnalyzer == AppendRows \/ GetRecent \/ DetectAnomalies

SpecAnalyzer == InitAnalyzer /\ [][NextAnalyzer]_vars

\* The log analyzer on a log that grows tick by tick
NextChanges ==
    AppendTick \/ AppendQuietSpell \/ AppendPartial \/ GetRecent \/ DetectChanges \/ GetStats

SpecChanges == InitAnalyzer /\ [][NextChanges]_vars

\* The log analyzer on logs of ten ticks with given RSRP readings
InitSignal == MonIdle /\ UbusIdle /\ RtIdle /\ SignalInit /\ TelIdle /\ FxIdle /\ StIdle /\ ConnIdle /\ TcIdle

NextSignal == GetRecent \/ get_anomalies

SpecSignal == InitSignal /\ [][NextSignal]_vars

\* The Teltonika WAN inference
InitTeltonika == MonIdle /\ UbusIdle /\ RtIdle /\ AnIdle /\ TelInit /\ FxIdle /\ StIdle /\ ConnIdle /\ TcIdle

NextTeltonika == GetConnectionStatus

SpecTeltonika == InitTeltonika /\ [][NextTeltonika]_vars

\* The FX4200 polling cycle
InitRefresh == MonIdle /\ UbusInit /\ RtIdle /\ AnIdle /\ TelIdle /\ FxInit /\ StIdle /\ ConnIdle /\ TcIdle

NextRefresh == RefreshData \/ CallAccessor \/ UbusTimePasses

SpecRefresh == InitRefresh /\ [][NextRefresh]_vars

\* Startup: main from load_config to the first iterations of the loop
InitStartup == MonIdle /\ UbusIdle /\ RtIdle /\ AnIdle /\ TelIdle /\ FxIdle /\ StInit /\ ConnIdle /\ TcIdle

NextStartup == BuildCollector \/ StartupTick

SpecStartup == InitStartup /\ [][NextStartup]_vars

\* The connection status of each collector variant
InitConnection == MonIdle /\ UbusIdle /\ RtIdle /\ AnIdle /\ TelIdle /\ FxIdle /\ StIdle /\ ConnInit /\ TcIdle

NextConnection == CallConnectionStatus

SpecConnection == InitConnection /\ [][NextConnection]_vars

\* The log analyzer on a log about as long as the buffer
InitBuffer == MonIdle /\ UbusIdle /\ RtIdle /\ BufInit /\ TelIdle /\ FxIdle /\ StIdle /\ ConnIdle /\ TcIdle

NextBuffer == AppendLate \/ GetRecentCount

SpecBuffer == InitBuffer /\ [][NextBuffer]_vars

\* The polling cycles of the Teltonika collector
InitTelCycle == MonIdle /\ UbusIdle /\ RtIdle /\ AnIdle /\ TelIdle /\ FxIdle /\ StIdle /\ ConnIdle /\ TcInit

NextTelCycle == TelRefreshData \/ TelAccessor

SpecTelCycle == InitTelCycle /\ [][NextTelCycle]_vars

----------------------------------------------------------------------------
(* Claims *)

\* C1: when an accessor raises or times out on a tick, every field of its
\* group in the record emitted on that tick equals the same field of the
\* record emitted on the previous tick (carried forward, not blanked).
C1_CarriedForward ==
    [][(emitted' = emitted + 1 /\ emitted >= 1)
         => \A a \in failed' : \A c \in GroupFields[a] : record'[c] = record[c]]_vars

\* C2: one _ubus_call discards the token and re-authenticates at most once
\* and sends the request payload at most twice.
C2_AtMostOneRetry ==
    /\ discards <= 1
    /\ Len(received) <= 2

\* C3: the timestamps of two consecutive emitted records never decrease.
C3_TimestampMonotonic ==
    [][(emitted' = emitted + 1 /\ emitted >= 1) => timestamp' >= timestamp]_vars

\* C4: when the request is rejected again after the re-authentication and
\* retry, _ubus_call ends by raising; it does not return a normal result.
C4_SecondRejectionRaises ==
    (Len(received) >= 2 /\ received[Len(received)] \in Rejections)
        => call_result = "raised"

\* C5: the polling loop never stops on its own, for every device type and
\* every outcome of the calls of a tick.
C5_LoopNeverStops == pc = "running"

\* C6: every collector variant provides refresh_data() returning a boolean,
\* so the scheduler's per-tick refresh_data() call succeeds.
C6_RefreshDataSucceeds == refresh_outcome \in {"none", "True", "False"}

\* C7: every tick emits exactly one record, whose Success, Latency_ms and
\* SourceIP come from a probe executed in that same tick.
C7_OneRecordFreshPing ==
    /\ emitted = ticks
    /\ emitted > 0 =>
        /\ ping_tick = ticks
        /\ record.Success = Format(ping_result.success)
        /\ record.Latency_ms = Format(PyOr(ping_result.latency_ms, EmptyStr))
        /\ record.SourceIP = Format(ping_result.source_ip)

\* A value read back from the log reproduces the original numeric value:
\* absent comes back as absent (None or the empty text), an integer as that
\* integer (or its decimal text)
Reproduces(orig, parsed) ==
    IF orig.t = "none" THEN ~Truthy(parsed) /\ parsed.t \in {"none", "str"}
    ELSE \/ (parsed.t = "int" /\ parsed.i = orig.i)
         \/ (parsed.t = "str" /\ parsed.s = IntToStr(orig.i))

\* C8: printing a LogRecord and re-parsing the line reproduces the value of
\* every field; an absent numeric field comes back as None, never as 0.
C8_RoundTrip ==
    rt_pc = "parsed" =>
        /\ rt_parsed.kind = "entry"
        /\ PyEq(rt_parsed.entry.success, rt_input.success)
        /\ Reproduces(rt_input.latency_ms, rt_parsed.entry.latency_ms)
        /\ Reproduces(rt_input.rsrp, rt_parsed.entry.rsrp)
        /\ Reproduces(rt_input.rsrq, rt_parsed.entry.rsrq)
        /\ Reproduces(rt_input.snr, rt_parsed.entry.snr)
        /\ Reproduces(rt_input.rssi, rt_parsed.entry.rssi)
        /\ rt_parsed.entry.timestamp = PyStr(FormatTimestamp(rt_input.ts))
        /\ PyEq(rt_parsed.entry.carrier, NetworkDict(rt_input.reading).carrier)
        /\ PyEq(rt_parsed.entry.wan_source, ConnectionDict(rt_input.reading).wan_source)
        /\ PyEq(rt_parsed.entry.iccid, SimDict(rt_input.reading).iccid)

\* The timestamps of the ping_failure events of a response, in order
PingFailureStamps(anomalies) ==
    LET isPing(e) == e.type = "ping_failure"
        pf == SelectSeq(anomalies, isPing)
    IN  [j \in 1..Len(pf) |-> pf[j].timestamp]

\* The timestamps of the buffered records from..Len(cache) whose probe failed
FailedStamps(from) ==
    LET probeFailed(e) == ~Truthy(e.success)
        f == SelectSeq(SubSeq(cache, from, Len(cache)), probeFailed)
    IN  [j \in 1..Len(f) |-> f[j].timestamp]

IsSuffix(s, t) == Len(s) <= Len(t) /\ s = SubSeq(t, Len(t) - Len(s) + 1, Len(t))

\* Where the evaluated half of the window starts in the buffer; past the
\* end of the buffer when fewer than 10 records are buffered
EvaluatedFrom ==
    LET n == Len(cache)
        w == IF n > 100 THEN 100 ELSE n
    IN  IF n < 10 THEN n + 1 ELSE n - w + (w \div 2) + 1

\* C9 as stated: every buffered record whose probe failed has exactly one
\* ping_failure event, of severity critical, with its timestamp in what
\* detect_anomalies returns, wherever the record lies in the buffer and
\* however many records are buffered.
C9_EveryFailedRecordFlagged ==
    response.op = "detect_anomalies" =>
        \A i \in 1..Len(cache) :
            ~Truthy(cache[i].success) =>
                /\ Cardinality({j \in 1..Len(response.anomalies) :
                        /\ response.anomalies[j].type = "ping_failure"
                        /\ response.anomalies[j].timestamp = cache[i].timestamp}) = 1
                /\ \A j \in 1..Len(response.anomalies) :
                        (/\ response.anomalies[j].type = "ping_failure"
                         /\ response.anomalies[j].timestamp = cache[i].timestamp)
                            => response.anomalies[j].severity = "critical"

\* C9 amended: with at least 10 records buffered, the failed records of the
\* evaluated half (the second half of the most recent 100 records) are
\* flagged with one critical ping_failure event each, in order, whatever
\* their RSRP and latency; the events returned are the last of these, all of
\* them when fewer than 20 events are returned. A failed record outside the
\* evaluated half, or in a buffer of fewer than 10 records, has no event.
C9_FailedRecordsOfEvaluatedHalf ==
    response.op = "detect_anomalies" =>
        /\ IsSuffix(PingFailureStamps(response.anomalies), FailedStamps(EvaluatedFrom))
        /\ Len(response.anomalies) < 20 =>
                PingFailureStamps(response.anomalies) = FailedStamps(EvaluatedFrom)
        /\ \A j \in 1..Len(response.anomalies) :
                response.anomalies[j].type = "ping_failure"
                    => response.anomalies[j].severity = "critical"

\* A failed record of the evaluated half is flagged as a ping failure next to
\* its RSRP drop, while a failed record of the baseline
\* half has no event
C9_Witness ==
    /\ response.op = "detect_anomalies"
    /\ Len(cache) >= 10
    /\ Len(response.anomalies) < 20
    /\ \E i \in EvaluatedFrom..Len(cache) :
        /\ ~Truthy(cache[i].success)
        /\ \E j \in 1..Len(response.anomalies) :
            /\ response.anomalies[j].type = "ping_failure"
            /\ response.anomalies[j].timestamp = cache[i].timestamp
        /\ \E j \in 1..Len(response.anomalies) :
            /\ response.anomalies[j].type = "rsrp_drop"
            /\ response.anomalies[j].timestamp = cache[i].timestamp
    /\ \E i \in 1..(EvaluatedFrom - 1) : ~Truthy(cache[i].success)

\* C10: detect_anomalies returns at most 20 events, each with the timestamp
\* of one of the most recent 100 buffered records, and returns no rsrp_drop
\* and no latency_spike event when fewer than 10 records are buffered.
C10_AnomaliesBounded ==
    response.op = "detect_anomalies" =>
        /\ Len(response.anomalies) <= 20
        /\ \A j \in 1..Len(response.anomalies) :
            \E i \in 1..Len(cache) :
                /\ i > Len(cache) - 100
                /\ cache[i].timestamp = response.anomalies[j].timestamp
        /\ Len(cache) < 10 =>
            \A j \in 1..Len(response.anomalies) :
                response.anomalies[j].type \notin {"rsrp_drop", "latency_spike"}

\* More than 100 records are buffered, more than 20 events were flagged and
\* 20 are returned
C10_Witness ==
    /\ response.op = "detect_anomalies"
    /\ Len(cache) > 100
    /\ Len(response.anomalies) = 20
    /\ \E j \in 1..20 : response.anomalies[j].type = "latency_spike"

\* C11: no change event returned by detect_changes has an empty new_value.
C11_NewValueNotEmpty ==
    response.op = "detect_changes" =>
        \A j \in 1..Len(response.changes) :
            /\ response.changes[j].new_value.t = "str"
            /\ response.changes[j].new_value.s # <<>>

\* A watched field went empty between two buffered records and changes of
\* other records were returned
C11_Witness ==
    /\ response.op = "detect_changes"
    /\ Len(response.changes) > 0
    /\ \E i \in 1..(Len(cache) - 1) :
        /\ Truthy(cache[i].carrier)
        /\ ~Truthy(cache[i + 1].carrier)

\* The buffered records of the baseline half with a parseable RSRP
BaselineParsed ==
    LET n == Len(cache)
        w == IF n > 100 THEN 100 ELSE n
    IN  {i \in (n - w + 1)..(EvaluatedFrom - 1) : RsrpOf(cache[i]).ok}

RECURSIVE SumOver(_, _)
SumOver(S, f) ==
    IF S = {} THEN 0
    ELSE LET x == CHOOSE y \in S : TRUE IN f[x] + SumOver(S \ {x}, f)

\* Whether the evaluated record i is to be flagged as an RSRP drop, by the
\* comparison r < a - threshold in integers: r * n < sum - threshold * n
DropExpected(i, thr) ==
    LET r == RsrpOf(cache[i])
        n == Cardinality(BaselineParsed)
        sum == SumOver(BaselineParsed, [j \in BaselineParsed |-> RsrpOf(cache[j]).v])
    IN  r.ok /\ n > 0 /\ r.v * n < sum - thr * n

\* The rsrp_drop events expected for the evaluated half, in order
ExpectedDrops(thr) ==
    LET expected(i) == DropExpected(i, thr)
        idx == SelectSeq([k \in 1..(Len(cache) - EvaluatedFrom + 1) |-> EvaluatedFrom + k - 1],
                         expected)
    IN  [k \in 1..Len(idx) |->
            [timestamp |-> cache[idx[k]].timestamp,
             severity  |-> IF RsrpOf(cache[idx[k]]).v <= -100 THEN "critical" ELSE "warning"]]

\* The rsrp_drop events of a response, in order
ReturnedDrops(anomalies) ==
    LET isDrop(e) == e.type = "rsrp_drop"
        d == SelectSeq(anomalies, isDrop)
    IN  [k \in 1..Len(d) |-> [timestamp |-> d[k].timestamp, severity |-> d[k].severity]]

At100 ==
    IF tel_in.mwan.text
    THEN {tel_in.mwan.policy[i].iface :
            i \in {j \in 1..Len(tel_in.mwan.policy) : tel_in.mwan.policy[j].percent = 100}}
    ELSE {}

\* C13: when the failover report shows exactly one interface at 100%, that
\* interface is the WAN device and the WAN source is classified from its
\* name (wan at 100% and mob1s1a1 at 0% give device wan and source Ethernet);
\* when none or several interfaces are at 100%, the policy step does not
\* decide.
C13_ExactlyOneAt100 ==
    tel_out # NoStatus =>
        /\ Cardinality(At100) = 1 =>
            /\ tel_out.step = "policy"
            /\ \A d \in At100 : tel_out.wan_device = d
            /\ wan \in At100 => tel_out.wan_source = Ethernet
            /\ \A d \in At100 : Contains(d, <<"m", "o", "b", "1", "s">>)
                                    => tel_out.wan_source = Cellular
        /\ Cardinality(At100) # 1 => tel_out.step # "policy"

\* C14: get_connection_status raises nothing, and when the failover report,
\* the WAN interface query and the cellular interface query all fail it
\* returns wan_status, wan_source and device_ipv4 all empty.
C14_AllEmptyWhenAllFail ==
    tel_out # NoStatus =>
        /\ ~tel_out.raised
        /\ (/\ ~tel_in.mwan.text
            /\ tel_in.wan_q.kind # "data"
            /\ tel_in.cell_q.kind # "data")
           => /\ tel_out.wan_status = <<>>
              /\ tel_out.wan_source = <<>>
              /\ tel_out.device_ipv4 = <<>>

C16_QueriesSeeTheLog ==
    LET now == reload_logs(log_file, MAX_CACHE_LINES)
    IN  ~now.raised =>
            /\ response.op = "detect_changes"
                    => response.changes = detect_changes(now.cache)
            /\ response.op = "detect_anomalies"
                    => response.anomalies
                            = detect_anomalies(now.cache, response.rsrp_threshold,
                                               latency_threshold)

\* C17: a reload of a log whose last line is a partial record raises
\* nothing, ignores that line and buffers the complete records before it.
C17_PartialLineIgnored ==
    (response.op = "get_recent" /\ EndsPartial(log_file)) =>
        /\ ~response.raised
        /\ cache = reload_logs(SubSeq(log_file, 1, Len(log_file) - 1), MAX_CACHE_LINES).cache

\* The host or the credential the selected device type needs is not configured
MissingCredential(cfg) ==
    \/ cfg.device_type = "rutm50" /\ cfg.ssh_host = <<>>
    \/ cfg.device_type = "fx4200" /\ cfg.password = <<>>

\* C18: when the host (rutm50) or the password (fx4200) the selected device
\* type needs is missing, main ends with a configuration error before the first
\* tick: the collector is never built into a running loop and no record is
\* emitted from it
C18_StartupFailsWithoutCredential ==
    MissingCredential(config) => (st_pc \in {"start", "failed"} /\ st_ticks = 0)

\* The query of a tick succeeded: it was made and it returned an address
QuerySucceeded(called, answer) ==
    called /\ ~answer.raised /\ Truthy(answer.value)

\* C19: a record emitted on a tick whose public-address query succeeded
\* carries the address that query returned; a record emitted on any other
\* tick (the query raised, returned no address, or was not due) carries the
\* PublicIP of the record before it, which is empty before the first record
C19_PublicIpKeptOnFailure ==
    [][emitted' = emitted + 1 =>
          record'.PublicIP =
              IF QuerySucceeded(public_ip_called', public_ip_answer')
              THEN public_ip_answer'.value.s
              ELSE record.PublicIP]_vars

\* A record with the first address was emitted, and the query of the next
\* tick failed or was not due: the record of that tick keeps the address
C19_Witness ==
    /\ emitted >= 2
    /\ ~QuerySucceeded(public_ip_called, public_ip_answer)
    /\ record.PublicIP = PubIp

\* The authenticate requests among the requests of a call
Authenticates(requests) == SelectSeq(requests, LAMBDA q : q = "authenticate")

\* A data request of the call was rejected
Rejected(replies) == \E i \in 1..Len(replies) : replies[i] \in Rejections

\* C20: a call opens with an authenticate request if and only if no token is
\* stored or the stored one is session_refresh seconds old or older; when the
\* last authenticate of a call was answered with a token, that token and the
\* time of the call are what the collector stores; a call made while the
\* stored token is valid and whose data request is not rejected sends no
\* authenticate request and leaves the stored token and its time alone
C20_AuthenticateOnlyWhenNeeded ==
    [][calls' = calls + 1 =>
          LET stale == session_token = NoToken
                       \/ uclock - session_created >= session_refresh
              n == Len(auth_replies')
          IN  /\ (sent'[1] = "authenticate") <=> stale
              /\ (n > 0 /\ auth_replies'[n] \in Tokens) =>
                    /\ session_token' = auth_replies'[n]
                    /\ session_created' = uclock
              /\ (~stale /\ ~Rejected(received')) =>
                    /\ Authenticates(sent') = <<>>
                    /\ session_token' = session_token
                    /\ session_created' = session_created]_vars

\* The second call, made UbusTimeStep seconds after the token was stored,
\* posted its data request alone and got data
C20_Witness ==
    /\ calls = 2
    /\ uclock = UbusTimeStep
    /\ session_token \in Tokens
    /\ session_created = 0
    /\ sent = <<"call">>
    /\ call_result = "data"

\* A value that stands for "not obtained": None, or the empty text
Absent(v) == v = PyNone \/ v = EmptyStr

\* C21: an accessor called while the bundle holds nothing (no batch has
\* succeeded yet) reports every field as absent, never as a data value such
\* as "Disconnected", "No Service" or a status name
C21_AbsentWhenNotObtained ==
    (fx_value # NoValue /\ cached = EmptyDict) =>
        \A k \in DOMAIN fx_value.value : Absent(fx_value.value[k])

\* C22: in every connection status a collector returns, wan_status is
\* Connected, Disconnected, Unknown or absent, and wan_source is Ethernet,
\* Cellular, Unknown or absent
C22_ConnectionValues ==
    conn_out # NoConnection =>
        /\ conn_out.wan_status.s \in {Connected, Disconnected, Unknown, <<>>}
        /\ conn_out.wan_source.s \in {Ethernet, Cellular, Unknown, <<>>}

\* C23: get_stats on a log that holds no records raises no error and
\* returns the success rate and every latency and RSRP aggregate as 0
C23_StatsOfEmptyLog ==
    (response.op = "get_stats" /\ log_file = <<>>) =>
        /\ ~response.raised
        /\ response.latency = Aggregate(<<>>)
        /\ response.rsrp = Aggregate(<<>>)

\* The buffered records of the baseline half that hold a numeric latency
BaselineTimed ==
    LET n == Len(cache)
        w == IF n > 100 THEN 100 ELSE n
    IN  {i \in (n - w + 1)..(EvaluatedFrom - 1) : cache[i].latency_ms # PyNone}

\* Whether the evaluated record i is to be flagged as a latency spike, by the
\* comparison l > a + threshold in integers: l * n > sum + threshold * n
SpikeExpected(i) ==
    LET n == Cardinality(BaselineTimed)
        sum == SumOver(BaselineTimed, [j \in BaselineTimed |-> cache[j].latency_ms.i])
    IN  /\ cache[i].latency_ms # PyNone
        /\ n > 0
        /\ cache[i].latency_ms.i * n > sum + latency_threshold * n

\* The latency_spike events expected for the evaluated half, in order
ExpectedSpikes ==
    LET idx == SelectSeq([k \in 1..(Len(cache) - EvaluatedFrom + 1) |-> EvaluatedFrom + k - 1],
                         SpikeExpected)
    IN  [k \in 1..Len(idx) |->
            [timestamp |-> cache[idx[k]].timestamp,
             severity  |-> IF cache[idx[k]].latency_ms.i >= 500 THEN "critical"
                           ELSE "warning"]]

\* The latency_spike events of a response, in order
ReturnedSpikes(anomalies) ==
    LET isSpike(e) == e.type = "latency_spike"
        d == SelectSeq(anomalies, isSpike)
    IN  [k \in 1..Len(d) |-> [timestamp |-> d[k].timestamp, severity |-> d[k].severity]]

\* C24: an evaluated entry with a latency l is flagged as latency_spike
\* exactly when l > a + threshold, a being the average of the numeric
\* latencies of the baseline half, with severity critical when l >= 500 and
\* warning otherwise; the events returned are the last of those flagged, all
\* of them when fewer than 20 events are returned
C24_LatencySpike ==
    (response.op = "detect_anomalies" /\ Len(cache) >= MinAnomalyRecords) =>
        /\ IsSuffix(ReturnedSpikes(response.anomalies), ExpectedSpikes)
        /\ Len(response.anomalies) < 20 =>
                ReturnedSpikes(response.anomalies) = ExpectedSpikes

\* The mean of the numeric entries of a column of the records, as the pair
\* (count, sum)
MeanOfNumeric(records, value(_)) ==
    LET numeric == SelectSeq(records, LAMBDA e : value(e).ok)
    IN  [n   |-> Len(numeric),
         sum |-> SumRange([i \in 1..Len(numeric) |-> value(numeric[i]).v], 1, Len(numeric))]

\* The latency of an entry as a number, if it holds one
LatencyOf(entry) ==
    IF entry.latency_ms = PyNone THEN ValueError
    ELSE [ok |-> TRUE, v |-> entry.latency_ms.i]

\* C25: the baseline of detect_anomalies is the first floor(n/2) of the most
\* recent n <= 100 buffered records, and its average RSRP and average
\* latency are the means of all its numeric entries, a value of 0 included
C25_BaselineAverages ==
    (response.op = "detect_anomalies" /\ Len(cache) >= MinAnomalyRecords) =>
        LET recent == LastN(cache, 100)
            first_half == SubSeq(recent, 1, Len(recent) \div 2)
        IN  /\ BaselineOf(recent) = first_half
            /\ BaselineRsrp(BaselineOf(recent)) = MeanOfNumeric(first_half, RsrpOf)
            /\ BaselineLatency(BaselineOf(recent)) = MeanOfNumeric(first_half, LatencyOf)

\* The change events of a run of records: for each pair of consecutive
\* records, in order, and each watched field, in order, whose value differs
\* and is not empty in the later record
ChangesOf(records) ==
    LET differs(i, f) == /\ records[i][watch_fields[f]] # records[i + 1][watch_fields[f]]
                         /\ Truthy(records[i + 1][watch_fields[f]])
        event(i, f) == [timestamp |-> records[i + 1].timestamp,
                        field     |-> watch_fields[f],
                        old_value |-> records[i][watch_fields[f]],
                        new_value |-> records[i + 1][watch_fields[f]]]
        ofPair(i) == ConcatRange([f \in 1..Len(watch_fields) |->
                                     IF differs(i, f) THEN <<event(i, f)>> ELSE <<>>],
                                 1, Len(watch_fields))
    IN  ConcatRange([i \in 1..(Len(records) - 1) |-> ofPair(i)], 1, Len(records) - 1)

\* C26 as stated: detect_changes returns the most recent 20 of the change
\* events of all the buffered records, in chronological order
C26_ChangesOfWholeBuffer ==
    response.op = "detect_changes" =>
        response.changes = LastN(ChangesOf(cache), 20)

\* C26 amended: detect_changes returns the most recent 20 of the change
\* events of the most recent 100 buffered records, in chronological order
C26_ChangesOfLast100 ==
    response.op = "detect_changes" =>
        response.changes = LastN(ChangesOf(LastN(cache, 100)), 20)

\* More than 100 records are buffered, a watched field changed before the
\* most recent 100 of them, and detect_changes returned no event
C26_Witness ==
    /\ response.op = "detect_changes"
    /\ Len(cache) > 100
    /\ ChangesOf(cache) # <<>>
    /\ response.changes = <<>>

\* A watched field reads the same value in records i and j of a run of
\* records and is empty in every record between them, of which there is one
\* at least
EmptyGap(records, field, i, j) ==
    /\ i + 1 < j
    /\ Truthy(records[i][field])
    /\ records[i][field] = records[j][field]
    /\ \A k \in (i + 1)..(j - 1) : ~Truthy(records[k][field])

\* C27: a watched field that reads a value, then is empty in one or more
\* consecutive records, then reads the same value again produces no change
\* event for that field
C27_EmptyIsNoTransition ==
    response.op = "detect_changes" =>
        LET recent == LastN(cache, 100)
        IN  \A f \in 1..Len(watch_fields) : \A i, j \in 1..Len(recent) :
                EmptyGap(recent, watch_fields[f], i, j) =>
                    ~\E e \in 1..Len(response.changes) :
                        /\ response.changes[e].field = watch_fields[f]
                        /\ response.changes[e].timestamp = recent[j].timestamp

\* The reading of time.time() at the last invocation of the public-address
\* query, once there was one: the invocation left next_public_ip_refresh at
\* that reading plus the cadence
LastQueryAt == next_public_ip_refresh - public_ip_refresh

\* C28: on every tick the public-address query is invoked if and only if
\* now >= next_public_ip_refresh, and the invocation, whatever its outcome,
\* leaves next_public_ip_refresh = now + cadence; with cadence 0 the query is
\* invoked on every tick, and with a cadence R > 0 an invocation comes at
\* least R seconds after the one before
C28_PublicIpCadence ==
    [][ticks' = ticks + 1 =>
          /\ public_ip_called' <=> (clock >= next_public_ip_refresh)
          /\ public_ip_called' => next_public_ip_refresh' = clock + public_ip_refresh
          /\ public_ip_refresh = 0 => public_ip_called'
          /\ (public_ip_refresh > 0 /\ public_ip_called' /\ ticks > 0) =>
                 clock - LastQueryAt >= public_ip_refresh]_vars

\* C29: the scheduler queries the device collector only on ticks where the
\* device-status cadence has elapsed: whatever the cadence is set to, on a tick
\* that comes less than the cadence after the last tick that queried the
\* collector (every emitting tick did) refresh_data is not called and the
\* device columns of the record are those of the record before
C29_CollectorOnItsCadence ==
    [][(ticks' = ticks + 1 /\ emitted > 0) =>
          \A status_refresh \in StatusRefreshValues :
              clock < timestamp + status_refresh =>
                  /\ refresh_outcome' = "none"
                  /\ \A a \in Accessors : \A c \in GroupFields[a] :
                         record'[c] = record[c]]_vars

\* C30: when the failover report has no interface at 100%, the status lines
\* decide: "wan" is chosen if it is online or up; otherwise the configured
\* cellular interface (cell_iface) is chosen if it is online or up
C30_StatusLinesUseCellIface ==
    (/\ tel_out.step # "pending"
     /\ ~tel_out.raised
     /\ tel_in.mwan.text
     /\ \A i \in 1..Len(tel_in.mwan.policy) : tel_in.mwan.policy[i].percent # 100) =>
        LET lines == tel_in.mwan.status
            up(name) == \E i \in 1..Len(lines) :
                            /\ lines[i].iface = name
                            /\ Lower(lines[i].status) \in {online, <<"u", "p">>}
                            /\ \A j \in (i + 1)..Len(lines) : lines[j].iface # name
        IN  /\ up(wan) => tel_out.wan_device = wan
            /\ (~up(wan) /\ up(tel_in.cell_iface)) =>
                   tel_out.wan_device = tel_in.cell_iface

\* C31: whenever the WAN interface query and the cellular interface query both
\* fail, the kernel route to the external destination is inspected, and the
\* WAN source is Cellular exactly when the name of the cellular interface
\* appears in that route
C31_RouteInspectedWhenQueriesFail ==
    (/\ tel_out.step # "pending"
     /\ tel_in.wan_q.kind # "data"
     /\ tel_in.cell_q.kind # "data") =>
        /\ tel_out.route_inspected
        /\ (tel_out.wan_source = Cellular) <=>
               (/\ tel_in.route.kind = "text"
                /\ Contains(tel_in.route.dev, tel_in.cell_iface))

\* The classification of an interface name, given the cellular interface
\* token: Cellular if the name contains the token; else Ethernet if it
\* contains "eth" or "lan"; else Ethernet if it is exactly "wan"; else Unknown
SourceOfName(name, token) ==
    IF Contains(name, token) THEN Cellular
    ELSE IF Contains(name, <<"e", "t", "h">>) \/ Contains(name, <<"l", "a", "n">>)
         THEN Ethernet
    ELSE IF name = wan THEN Ethernet
    ELSE Unknown

\* C32: the WAN source of an interface chosen by name from the failover
\* report is SourceOfName of that name and the configured cellular interface
\* (names of the other SIM's interface, which hold the token "mob1s" but not
\* the configured name, are left aside)
C32_SourceClassification ==
    (/\ tel_out.step \in {"policy", "status"}
     /\ ~(/\ Contains(tel_out.wan_device, <<"m", "o", "b", "1", "s">>)
          /\ ~Contains(tel_out.wan_device, tel_in.cell_iface))) =>
        tel_out.wan_source = SourceOfName(tel_out.wan_device, tel_in.cell_iface)

\* C33: the record of a tick renders the latency of that tick's ping as its
\* plain integer whenever the ping gave one, 0 included, and as the empty text
\* only when it gave none; Success is rendered as "True" or "False"
C33_NumbersRenderedPlain ==
    (emitted > 0 /\ ping_tick = ticks /\ pc = "running") =>
        /\ record.Latency_ms = IF ping_result.latency_ms.t = "int"
                               THEN IntToStr(ping_result.latency_ms.i)
                               ELSE <<>>
        /\ record.Success = IF ping_result.success.b THEN TrueStr ELSE FalseStr

\* A row _parse_line makes a record of: every column is there and Latency_ms
\* is empty or a run of digits
IsParseable(row) ==
    /\ DOMAIN row = Columns
    /\ \A i \in 1..Len(row.Latency_ms) :
           row.Latency_ms[i] \in {"0", "1", "2", "3", "4", "5", "6", "7", "8", "9"}

\* The timestamps of the parseable rows among the last n rows, in file order
TailTimestamps(rows, n) ==
    LET first == IF Len(rows) > n THEN Len(rows) - n + 1 ELSE 1
        keep(i) == IsParseable(rows[i])
        kept == SelectSeq([k \in 1..(Len(rows) - first + 1) |-> first + k - 1], keep)
    IN  [j \in 1..Len(kept) |-> rows[kept[j]].Timestamp]

\* C34: after a reload of the log the buffer holds at most 1000 records, and
\* they are exactly the parseable records among the last 1000 rows of the
\* file (the tail_lines every caller passes), in file order
C34_BufferIsTailOfLog ==
    (response.op = "get_recent" /\ ~response.raised) =>
        /\ Len(cache) <= 1000
        /\ [j \in 1..Len(cache) |-> cache[j].timestamp.s] = TailTimestamps(log_file, 1000)

\* A log of more than 1000 rows with a header line among the last 1000 has
\* been reloaded: the oldest row was dropped and the header line skipped
C34_Witness ==
    /\ response.op = "get_recent"
    /\ Len(log_file) > 1000
    /\ \E i \in (Len(log_file) - 999)..Len(log_file) : log_file[i] = HeaderLine
    /\ Len(cache) = 999
    /\ cache[1].timestamp.s # log_file[1].Timestamp

\* C38: GET /api/recent?count=N returns at most N records (at most 1000 for
\* a larger N), namely the most recent ones of the buffer in log order; for
\* N = 0 it returns none
C38_RecentReturnsCount ==
    (response.op = "get_recent" /\ ~response.raised /\ "count" \in DOMAIN response) =>
        LET n == IF response.count > 1000 THEN 1000 ELSE response.count
            m == IF Len(cache) > n THEN n ELSE Len(cache)
        IN  /\ Len(response.entries) <= n
            /\ response.entries = SubSeq(cache, Len(cache) - m + 1, Len(cache))

\* C35: in collector-script mode a polling cycle opens exactly one ssh
\* session, the one of refresh_data, whether the script call succeeds or
\* fails: no accessor opens another
C35_OneSessionPerCycle ==
    (use_collector_script /\ tel_pc >= 1) => tel_sessions = 1

\* The most requests one refresh_data can send: those of _ensure_session and of
\* thirteen calls, each with its post, and two re-authentications and retries
MostRequests == 1 + Len(BundleKeys) * 6

\* C36: an invocation of refresh_data ends after a bounded number of requests
\* and returns True or False; when it has to authenticate first and the
\* device rejects the password, it has sent that one authenticate request and
\* no data request, and it returns False
C36_RefreshTerminates ==
    fx_refreshed # "none" =>
        /\ fx_refreshed \in {"True", "False"}
        /\ Len(sent) <= MostRequests
        /\ (auth_replies # <<>> /\ auth_replies[1] = "fail" /\ sent[1] = "authenticate") =>
               /\ sent = <<"authenticate">>
               /\ received = <<>>
               /\ fx_refreshed = "False"

\* The second invocation in a row that the device rejected: again one
\* authenticate request and nothing else
C36_Witness ==
    /\ fx_cycles = 2
    /\ session_token = NoToken
    /\ rpc_id = 2
    /\ sent = <<"authenticate">>
    /\ auth_replies = <<"fail">>
    /\ fx_refreshed = "False"

\* C37: refresh_data replaces the bundle atomically: when a request of the
\* batch raised it returns False and the bundle is the one it was before;
\* when none raised it returns True and the bundle holds the thirteen replies
\* of this batch and nothing else
C37_BundleReplacedAtomically ==
    [][fx_cycles' = fx_cycles + 1 =>
          LET raised == \/ \E i \in 1..Len(received') : received'[i] = "exc"
                        \/ \E i \in 1..Len(auth_replies') : auth_replies'[i] = "fail"
          IN  /\ raised => (fx_refreshed' = "False" /\ cached' = cached)
              /\ ~raised =>
                     /\ fx_refreshed' = "True"
                     /\ DOMAIN cached' = {BundleKeys[k] : k \in 1..Len(BundleKeys)}
                     /\ \E r \in Readings : \A k \in DOMAIN cached' :
                            cached'[k] \in {EmptyDict, DeviceReply(k, r)}]_vars

\* A batch failed in its last call after a batch that succeeded, and the
\* bundle of the first batch is still stored
C37_Witness ==
    /\ fx_cycles = 2
    /\ fx_refreshed = "False"
    /\ Len(received) = Len(BundleKeys)
    /\ received[Len(received)] = "exc"
    /\ DOMAIN cached = {BundleKeys[k] : k \in 1..Len(BundleKeys)}

====
